---- MODULE Spec2Model ----
(***************************************************************************)
(* cgrapht: a generic in-memory directed graph whose vertices and edges    *)
(* are addressed by the hash of their payload.  The module models the      *)
(* three stores of DirectedGraph (vertex_index, edge_index,                *)
(* adjacency_list), its four mutating members and its queries, each        *)
(* returning a Result.                                                     *)
(***************************************************************************)
EXTENDS Integers, FiniteSets, Sequences, Bags, TLC

(***************************************************************************)
(* Bounds of the model: the ids callers may use.                           *)
(***************************************************************************)
MaxVertexId == 2
MaxEdgeId == 2

VertexIds == 1..MaxVertexId
EdgeIds == 1..MaxEdgeId

(***************************************************************************)
(* Payloads.  A vertex payload is the tests' struct Vertex {id, name}; an  *)
(* edge payload is a value of any Hashable type E, here an id, which       *)
(* std::hash returns as for DefaultEdge, and a tag that equality compares. *)
(* Vertex and EdgePayload hold one payload per id.  CollidingVertex and    *)
(* CollidingEdge are unequal to the payloads of id 1 and hash to 1 too.    *)
(***************************************************************************)
Vertex == {[id |-> i, name |-> "a"] : i \in VertexIds}

EdgePayload == {[id |-> k, tag |-> "x"] : k \in EdgeIds}

CollidingVertex == [id |-> 1, name |-> "b"]

CollidingEdge == [id |-> 1, tag |-> "y"]

\* std::hash<Vertex>: returns v.id
HashV(v) == v.id

\* std::hash<DefaultEdge>: returns edge.id
HashE(e) == e.id

(***************************************************************************)
(* Result<SUCCESS, ERROR>: the variant tagged by is_success.               *)
(***************************************************************************)
Success(s) == [is_success |-> TRUE, ok |-> s]

Error(e) == [is_success |-> FALSE, err |-> e]

ErrorType ==
    {"INVALID_ARGUMENT", "ABSENT_VERTX", "ABSENT_EDGE", "EDGE_ALREADY_EXISTS",
     "VERTEX_NOT_FREE", "INVALID_OPERATION", "OUT_OF_RANGE", "UNKNOWN"}

\* What a call yields when unordered_map::at finds no such key.
Thrown == [thrown |-> "std::out_of_range"]

\* Result r; the private default constructor: the variant holds monostate
\* (neither ok nor err) and is_success is true.
Default == [is_success |-> TRUE]

\* What an accessor yields when it returns x, and when it throws.
Returned(x) == [returned |-> x]

RuntimeError == [thrown |-> "std::runtime_error"]

BadVariantAccess == [thrown |-> "std::bad_variant_access"]

\* Payload values of the Result tests: class Movable {valid, val}, built valid;
\* a value of a trivially copyable type (int, ErrorType) is one that stays valid.
MaxPayload == 2

Payload == {[valid |-> TRUE, val |-> n] : n \in 1..MaxPayload}

\* The template parameters, and the choices of which of them is Movable
\* (Result<int, ErrorType>, Result<Movable, ErrorType>, Result<int, Movable>).
TypeChoices == {{}, {"SUCCESS"}, {"ERROR"}}

\* What is left of x after it was moved from: Movable(Movable&&) clears valid
\* in its source, a trivially copyable value is left as it was.
MovedFrom(x, is_movable) == IF is_movable THEN [x EXCEPT !.valid = FALSE] ELSE x

\* std::get of the alternative alt (ok for SUCCESS, err for ERROR)
Get(r, alt) == IF alt \in DOMAIN r THEN Returned(r[alt]) ELSE BadVariantAccess

\* A slip: is_ok answers for the other variant.
is_ok_negated(r) == Returned(~r.is_success)

is_ok(r) == Returned(r.is_success)

\* What an accessor call leaves behind: the Result after it and what it yielded.
Accessed(r, ret) == [result |-> r, ret |-> ret]

\* A slip: the guard is missing and the payload held is returned, whichever
\* alternative holds it.
get_ok_unguarded(r) ==
    IF "err" \in DOMAIN r
    THEN Accessed(r, Get(r, "err"))
    ELSE Accessed(r, Get(r, "ok"))

get_ok(r) ==
    IF r.is_success
    THEN Accessed(r, Get(r, "ok"))
    ELSE Accessed(r, RuntimeError)

get_error(r) ==
    IF ~r.is_success
    THEN Accessed(r, Get(r, "err"))
    ELSE Accessed(r, RuntimeError)

\* std::move(std::get<T>(result)) returned by value: the value returned is
\* move-constructed from the payload, which stays in the variant, moved from
Consume(r, alt, is_movable) ==
    IF alt \in DOMAIN r
    THEN Accessed([r EXCEPT ![alt] = MovedFrom(@, is_movable)], Returned(r[alt]))
    ELSE Accessed(r, BadVariantAccess)

\* A slip: the variant is reset after the payload was moved out.
consume_ok_resets(r, T) ==
    IF r.is_success
    THEN Accessed(Default, Consume(r, "ok", "SUCCESS" \in T).ret)
    ELSE Accessed(r, RuntimeError)

consume_ok(r, T) ==
    IF r.is_success
    THEN Consume(r, "ok", "SUCCESS" \in T)
    ELSE Accessed(r, RuntimeError)

consume_error(r, T) ==
    IF ~r.is_success
    THEN Consume(r, "err", "ERROR" \in T)
    ELSE Accessed(r, RuntimeError)

\* operator== of std::variant: the same alternative, holding equal values
VariantEquals(r, other) ==
    /\ DOMAIN r \ {"is_success"} = DOMAIN other \ {"is_success"}
    /\ \A alt \in DOMAIN r \ {"is_success"} : r[alt] = other[alt]

\* A slip: the payloads are compared and the flags are not.
Equals_payload_only(r, other) ==
    \E a \in DOMAIN r \ {"is_success"}, b \in DOMAIN other \ {"is_success"} :
        r[a] = other[b]

\* Result::operator==
Equals(r, other) == r.is_success = other.is_success /\ VariantEquals(r, other)

(***************************************************************************)
(* std::unordered_map, as a function on the set of its keys.               *)
(***************************************************************************)
EmptyMap == <<>>

Contains(m, k) == k \in DOMAIN m

\* emplace: inserts only when the key is not there yet
Emplace(m, k, v) ==
    IF k \in DOMAIN m THEN m
    ELSE [x \in DOMAIN m \cup {k} |-> IF x = k THEN v ELSE m[x]]

Erase(m, k) == [x \in DOMAIN m \ {k} |-> m[x]]

\* struct EdgeSet, value-initialised
EdgeSet == [incoming_edges |-> {}, outgoing_edges |-> {}]

\* operator[]: a missing key is inserted with a value-initialised EdgeSet
Subscript(m, k) == Emplace(m, k, EdgeSet)

\* struct Edge<E>
Edge(from_id, to_id, e) == [from_id |-> from_id, to_id |-> to_id, edge |-> e]

VARIABLES
    vertex_index,    \* vertex id -> vertex payload
    edge_index,      \* edge id -> Edge record
    adjacency_list,  \* vertex id -> EdgeSet
    last,            \* the last call made: member, arguments and returned value
    repeated,        \* the last call repeats a mutating call that had just succeeded
    changed,         \* the last call left the object other than it found it
    freed,           \* vertices that the delete_edge just before lost their last edge by
    unbound,         \* the edge record that the id given to the delete_edge just
                     \* before was bound to, where that call succeeded and this
                     \* piece of history is kept
    res,             \* a Result object a caller holds
    movable,         \* which of its template parameters is the class Movable
    pc,              \* per thread: the call it is in and the statement it is at
    mutex,           \* the thread that holds the callers' exclusive lock
    synchronized,    \* whether the callers take that lock around each call
    legacy           \* an object of the older headers that is given the same calls:
                     \* the object after its last call, and what that call yielded

vars == <<vertex_index, edge_index, adjacency_list, last, repeated, changed, freed, unbound,
         res, movable, pc, mutex, synchronized, legacy>>

\* The value of unbound where that history is not kept.
NotKept == {[kept |-> FALSE]}

\* The threads that share one graph, each started to make one call: one adds an
\* edge, one deletes a vertex.
Threads == {"adder", "deleter"}

NoThread == "none"

\* A thread that has not made its call yet.
Idle == [at |-> "idle"]

\* The callers' state when one thread makes whole calls one after another.
callers == <<pc, mutex, synchronized>>

SingleCaller ==
    /\ pc = [t \in Threads |-> Idle]
    /\ mutex = NoThread
    /\ synchronized = TRUE

\* The value of legacy where no object of the older headers is run alongside.
NoLegacy == [graph |-> <<>>, ret |-> <<>>]

\* The object: the three private members of DirectedGraph.
Graph(vi, ei, al) == [vertex_index |-> vi, edge_index |-> ei, adjacency_list |-> al]

this == Graph(vertex_index, edge_index, adjacency_list)

\* What a member call leaves behind: the object after it and the value returned.
Outcome(g, ret) == [graph |-> g, ret |-> ret]

(***************************************************************************)
(* The mutating members, each a function of the object before the call and *)
(* the arguments.                                                          *)
(***************************************************************************)
\* A slip: the negation of the presence test is missing.
add_vertex_inverted(g, v) ==
    LET vertex_id == HashV(v) IN
    IF Contains(g.vertex_index, vertex_id)
    THEN Outcome([g EXCEPT !.vertex_index = Emplace(@, vertex_id, v),
                           !.adjacency_list = Emplace(@, vertex_id, EdgeSet)],
                 Success(vertex_id))
    ELSE Outcome(g, Success(vertex_id))

\* A slip: no adjacency entry is made for the new vertex.
add_vertex_no_adjacency(g, v) ==
    LET vertex_id == HashV(v) IN
    IF ~Contains(g.vertex_index, vertex_id)
    THEN Outcome([g EXCEPT !.vertex_index = Emplace(@, vertex_id, v)],
                 Success(vertex_id))
    ELSE Outcome(g, Success(vertex_id))

\* A slip: insert_or_assign for the guarded emplace, so a stored payload is
\* replaced by the one just given.
add_vertex_overwrites(g, v) ==
    LET vertex_id == HashV(v) IN
    Outcome([g EXCEPT !.vertex_index =
                         [x \in DOMAIN @ \cup {vertex_id} |->
                             IF x = vertex_id THEN v ELSE @[x]],
                      !.adjacency_list = Emplace(@, vertex_id, EdgeSet)],
            Success(vertex_id))

add_vertex(g, v) ==
    LET vertex_id == HashV(v) IN
    IF ~Contains(g.vertex_index, vertex_id)
    THEN Outcome([g EXCEPT !.vertex_index = Emplace(@, vertex_id, v),
                           !.adjacency_list = Emplace(@, vertex_id, EdgeSet)],
                 Success(vertex_id))
    ELSE Outcome(g, Success(vertex_id))

\* A slip: only the outgoing set is tested.
IsFree_outgoing_only(g, vertex_id) ==
    /\ Contains(g.adjacency_list, vertex_id)
    /\ g.adjacency_list[vertex_id].outgoing_edges = {}

\* A slip: only the incoming edges are tested.
IsFree_incoming_only(g, vertex_id) ==
    /\ Contains(g.adjacency_list, vertex_id)
    /\ g.adjacency_list[vertex_id].incoming_edges = {}

\* the test of line 172: operator[] is evaluated only after contains succeeded
IsFree(g, vertex_id) ==
    /\ Contains(g.adjacency_list, vertex_id)
    /\ g.adjacency_list[vertex_id].incoming_edges = {}
    /\ g.adjacency_list[vertex_id].outgoing_edges = {}

\* A slip: the adjacency entry of the deleted vertex is left behind.
delete_vertex_keeps_adjacency(g, vertex_id) ==
    IF ~Contains(g.vertex_index, vertex_id)
    THEN Outcome(g, Error("ABSENT_VERTX"))
    ELSE IF IsFree(g, vertex_id)
         THEN Outcome([g EXCEPT !.vertex_index = Erase(@, vertex_id)],
                      Success(vertex_id))
         ELSE Outcome(g, Error("VERTEX_NOT_FREE"))

\* A slip: the vertex stays in vertex_index.
delete_vertex_keeps_vertex(g, vertex_id) ==
    IF ~Contains(g.vertex_index, vertex_id)
    THEN Outcome(g, Error("ABSENT_VERTX"))
    ELSE IF IsFree(g, vertex_id)
         THEN Outcome([g EXCEPT !.adjacency_list = Erase(@, vertex_id)],
                      Success(vertex_id))
         ELSE Outcome(g, Error("VERTEX_NOT_FREE"))

\* A slip: vertex_index is cleared, not erased at one key.
delete_vertex_clears(g, vertex_id) ==
    IF ~Contains(g.vertex_index, vertex_id)
    THEN Outcome(g, Error("ABSENT_VERTX"))
    ELSE IF IsFree(g, vertex_id)
         THEN Outcome([g EXCEPT !.adjacency_list = Erase(@, vertex_id),
                                !.vertex_index = EmptyMap],
                      Success(vertex_id))
         ELSE Outcome(g, Error("VERTEX_NOT_FREE"))

\* A slip: the test of the two adjacency sets is missing.
delete_vertex_unchecked(g, vertex_id) ==
    IF ~Contains(g.vertex_index, vertex_id)
    THEN Outcome(g, Error("ABSENT_VERTX"))
    ELSE Outcome([g EXCEPT !.adjacency_list = Erase(@, vertex_id),
                           !.vertex_index = Erase(@, vertex_id)],
                 Success(vertex_id))

delete_vertex(g, vertex_id) ==
    IF ~Contains(g.vertex_index, vertex_id)
    THEN Outcome(g, Error("ABSENT_VERTX"))
    ELSE IF IsFree(g, vertex_id)
         THEN Outcome([g EXCEPT !.adjacency_list = Erase(@, vertex_id),
                                !.vertex_index = Erase(@, vertex_id)],
                      Success(vertex_id))
         ELSE Outcome(g, Error("VERTEX_NOT_FREE"))

\* A slip: the two endpoints are exchanged.
InsertAdjacency_swapped(al, from_id, to_id, edge_id) ==
    LET al1 == Subscript(al, to_id)
        al2 == [al1 EXCEPT ![to_id].outgoing_edges = @ \cup {edge_id}]
        al3 == Subscript(al2, from_id)
    IN [al3 EXCEPT ![from_id].incoming_edges = @ \cup {edge_id}]

\* A slip: the incoming set of to_id is not updated.
InsertAdjacency_no_incoming(al, from_id, to_id, edge_id) ==
    LET al1 == Subscript(al, from_id)
    IN [al1 EXCEPT ![from_id].outgoing_edges = @ \cup {edge_id}]

\* adjacency_list[from_id].outgoing_edges.insert; adjacency_list[to_id].incoming_edges.insert
InsertAdjacency(al, from_id, to_id, edge_id) ==
    LET al1 == Subscript(al, from_id)
        al2 == [al1 EXCEPT ![from_id].outgoing_edges = @ \cup {edge_id}]
        al3 == Subscript(al2, to_id)
    IN [al3 EXCEPT ![to_id].incoming_edges = @ \cup {edge_id}]

\* A slip: a known edge id is refused whatever its binding.
ExistingEdge_always_conflict(g, from_id, to_id, e, edge_id) ==
    Outcome(g, Error("EDGE_ALREADY_EXISTS"))

\* A slip: && for ||, so one matching endpoint is taken for a matching binding.
ExistingEdge_both_differ(g, from_id, to_id, e, edge_id) ==
    LET edge_info == g.edge_index[edge_id] IN
    IF edge_info.from_id # from_id /\ edge_info.to_id # to_id
    THEN Outcome(g, Error("EDGE_ALREADY_EXISTS"))
    ELSE Outcome(g, Success(edge_id))

\* A slip: a matching binding is stored again, with the payload just given.
ExistingEdge_overwrite(g, from_id, to_id, e, edge_id) ==
    LET edge_info == g.edge_index[edge_id] IN
    IF edge_info.from_id # from_id \/ edge_info.to_id # to_id
    THEN Outcome(g, Error("EDGE_ALREADY_EXISTS"))
    ELSE Outcome([g EXCEPT !.edge_index[edge_id] = Edge(from_id, to_id, e)],
                 Success(edge_id))

\* the branch taken when the edge id is already in edge_index
ExistingEdge(g, from_id, to_id, e, edge_id) ==
    LET edge_info == g.edge_index[edge_id] IN
    IF edge_info.from_id # from_id \/ edge_info.to_id # to_id
    THEN Outcome(g, Error("EDGE_ALREADY_EXISTS"))
    ELSE Outcome(g, Success(edge_id))

\* A slip: && for ||, so one present endpoint is enough.
add_edge_both_absent(g, from_id, to_id, e) ==
    IF ~Contains(g.vertex_index, from_id) /\ ~Contains(g.vertex_index, to_id)
    THEN Outcome(g, Error("ABSENT_VERTX"))
    ELSE LET edge_id == HashE(e) IN
         IF Contains(g.edge_index, edge_id)
         THEN ExistingEdge(g, from_id, to_id, e, edge_id)
         ELSE Outcome([g EXCEPT !.edge_index = Emplace(@, edge_id, Edge(from_id, to_id, e)),
                                !.adjacency_list = InsertAdjacency(@, from_id, to_id, edge_id)],
                      Success(edge_id))

\* A slip: the record is stored with its endpoints exchanged.
add_edge_stores_swapped(g, from_id, to_id, e) ==
    IF ~Contains(g.vertex_index, from_id) \/ ~Contains(g.vertex_index, to_id)
    THEN Outcome(g, Error("ABSENT_VERTX"))
    ELSE LET edge_id == HashE(e) IN
         IF Contains(g.edge_index, edge_id)
         THEN ExistingEdge(g, from_id, to_id, e, edge_id)
         ELSE Outcome([g EXCEPT !.edge_index = Emplace(@, edge_id, Edge(to_id, from_id, e)),
                                !.adjacency_list = InsertAdjacency(@, from_id, to_id, edge_id)],
                      Success(edge_id))

\* A slip: the adjacency entries are taken with operator[] before the
\* presence test, so a refused call leaves an entry for an absent endpoint.
add_edge_subscript_first(g, from_id, to_id, e) ==
    LET touched == [g EXCEPT !.adjacency_list = Subscript(Subscript(@, from_id), to_id)] IN
    IF ~Contains(g.vertex_index, from_id) \/ ~Contains(g.vertex_index, to_id)
    THEN Outcome(touched, Error("ABSENT_VERTX"))
    ELSE LET edge_id == HashE(e) IN
         IF Contains(g.edge_index, edge_id)
         THEN ExistingEdge(touched, from_id, to_id, e, edge_id)
         ELSE Outcome([g EXCEPT !.edge_index = Emplace(@, edge_id, Edge(from_id, to_id, e)),
                                !.adjacency_list = InsertAdjacency(@, from_id, to_id, edge_id)],
                      Success(edge_id))

\* A slip: the id conflict is tested before the presence of the endpoints.
add_edge_conflict_first(g, from_id, to_id, e) ==
    LET edge_id == HashE(e) IN
    IF Contains(g.edge_index, edge_id)
    THEN ExistingEdge(g, from_id, to_id, e, edge_id)
    ELSE IF ~Contains(g.vertex_index, from_id) \/ ~Contains(g.vertex_index, to_id)
         THEN Outcome(g, Error("ABSENT_VERTX"))
         ELSE Outcome([g EXCEPT !.edge_index = Emplace(@, edge_id, Edge(from_id, to_id, e)),
                                !.adjacency_list = InsertAdjacency(@, from_id, to_id, edge_id)],
                      Success(edge_id))

\* A slip: the presence test covers from_id only.
add_edge_checks_from_only(g, from_id, to_id, e) ==
    IF ~Contains(g.vertex_index, from_id)
    THEN Outcome(g, Error("ABSENT_VERTX"))
    ELSE LET edge_id == HashE(e) IN
         IF Contains(g.edge_index, edge_id)
         THEN ExistingEdge(g, from_id, to_id, e, edge_id)
         ELSE Outcome([g EXCEPT !.edge_index = Emplace(@, edge_id, Edge(from_id, to_id, e)),
                                !.adjacency_list = InsertAdjacency(@, from_id, to_id, edge_id)],
                      Success(edge_id))

\* A slip: the presence test covers to_id only.
add_edge_checks_to_only(g, from_id, to_id, e) ==
    IF ~Contains(g.vertex_index, to_id)
    THEN Outcome(g, Error("ABSENT_VERTX"))
    ELSE LET edge_id == HashE(e) IN
         IF Contains(g.edge_index, edge_id)
         THEN ExistingEdge(g, from_id, to_id, e, edge_id)
         ELSE Outcome([g EXCEPT !.edge_index = Emplace(@, edge_id, Edge(from_id, to_id, e)),
                                !.adjacency_list = InsertAdjacency(@, from_id, to_id, edge_id)],
                      Success(edge_id))

add_edge(g, from_id, to_id, e) ==
    IF ~Contains(g.vertex_index, from_id) \/ ~Contains(g.vertex_index, to_id)
    THEN Outcome(g, Error("ABSENT_VERTX"))
    ELSE LET edge_id == HashE(e) IN
         IF Contains(g.edge_index, edge_id)
         THEN ExistingEdge(g, from_id, to_id, e, edge_id)
         ELSE Outcome([g EXCEPT !.edge_index = Emplace(@, edge_id, Edge(from_id, to_id, e)),
                                !.adjacency_list = InsertAdjacency(@, from_id, to_id, edge_id)],
                      Success(edge_id))

\* A slip: the edge id stays in the incoming set of to_id.
EraseAdjacency_outgoing_only(al, from_id, to_id, edge_id) ==
    LET al1 == Subscript(al, from_id)
    IN [al1 EXCEPT ![from_id].outgoing_edges = @ \ {edge_id}]

\* A slip: the edge id stays in the outgoing set of from_id.
EraseAdjacency_incoming_only(al, from_id, to_id, edge_id) ==
    LET al1 == Subscript(al, to_id)
    IN [al1 EXCEPT ![to_id].incoming_edges = @ \ {edge_id}]

\* A slip: an entry whose two sets became empty is dropped with the edge.
EraseAdjacency_prunes_empty(al, from_id, to_id, edge_id) ==
    LET al1 == Subscript(al, from_id)
        al2 == [al1 EXCEPT ![from_id].outgoing_edges = @ \ {edge_id}]
        al3 == Subscript(al2, to_id)
        al4 == [al3 EXCEPT ![to_id].incoming_edges = @ \ {edge_id}]
        kept == {id \in DOMAIN al4 : id \notin {from_id, to_id} \/ al4[id] # EdgeSet}
    IN [id \in kept |-> al4[id]]

\* A slip: the two sets are taken from the wrong vertices.
EraseAdjacency_swapped(al, from_id, to_id, edge_id) ==
    LET al1 == Subscript(al, to_id)
        al2 == [al1 EXCEPT ![to_id].outgoing_edges = @ \ {edge_id}]
        al3 == Subscript(al2, from_id)
    IN [al3 EXCEPT ![from_id].incoming_edges = @ \ {edge_id}]

\* adjacency_list[from_id].outgoing_edges.erase; adjacency_list[to_id].incoming_edges.erase
EraseAdjacency(al, from_id, to_id, edge_id) ==
    LET al1 == Subscript(al, from_id)
        al2 == [al1 EXCEPT ![from_id].outgoing_edges = @ \ {edge_id}]
        al3 == Subscript(al2, to_id)
    IN [al3 EXCEPT ![to_id].incoming_edges = @ \ {edge_id}]

\* A slip: the record stays in edge_index.
delete_edge_keeps_record(g, edge_id) ==
    IF Contains(g.edge_index, edge_id)
    THEN LET from_id == g.edge_index[edge_id].from_id
             to_id == g.edge_index[edge_id].to_id
         IN Outcome([g EXCEPT !.adjacency_list = EraseAdjacency(@, from_id, to_id, edge_id)],
                    Success(edge_id))
    ELSE Outcome(g, Error("ABSENT_EDGE"))

\* A slip: the record is erased and the two adjacency sets are not pruned.
delete_edge_keeps_adjacency(g, edge_id) ==
    IF Contains(g.edge_index, edge_id)
    THEN Outcome([g EXCEPT !.edge_index = Erase(@, edge_id)], Success(edge_id))
    ELSE Outcome(g, Error("ABSENT_EDGE"))

\* A slip: the record is erased under the wrong key, the id of the source
\* vertex.
delete_edge_erases_from_id(g, edge_id) ==
    IF Contains(g.edge_index, edge_id)
    THEN LET from_id == g.edge_index[edge_id].from_id
             to_id == g.edge_index[edge_id].to_id
         IN Outcome([g EXCEPT !.edge_index = Erase(@, from_id),
                              !.adjacency_list = EraseAdjacency(@, from_id, to_id, edge_id)],
                    Success(edge_id))
    ELSE Outcome(g, Error("ABSENT_EDGE"))

delete_edge(g, edge_id) ==
    IF Contains(g.edge_index, edge_id)
    THEN LET from_id == g.edge_index[edge_id].from_id
             to_id == g.edge_index[edge_id].to_id
         IN Outcome([g EXCEPT !.edge_index = Erase(@, edge_id),
                              !.adjacency_list = EraseAdjacency(@, from_id, to_id, edge_id)],
                    Success(edge_id))
    ELSE Outcome(g, Error("ABSENT_EDGE"))

(***************************************************************************)
(* The const members: each returns a Result and leaves the object alone.   *)
(***************************************************************************)
get_vertex(g, id) ==
    IF Contains(g.vertex_index, id)
    THEN Success(g.vertex_index[id])
    ELSE Error("ABSENT_VERTX")

get_edge(g, id) ==
    IF Contains(g.edge_index, id)
    THEN Success(g.edge_index[id])
    ELSE Error("ABSENT_EDGE")

\* at() of each outgoing edge id, its to_id collected into an unordered_set;
\* unordered_map::at throws when the id is not a key of edge_index
\* A slip: the view of the outgoing edges takes from_id.
get_children_from_id(g, vertex_id) ==
    IF ~Contains(g.adjacency_list, vertex_id)
    THEN Error("ABSENT_VERTX")
    ELSE LET outgoing == g.adjacency_list[vertex_id].outgoing_edges IN
         IF \E edge_id \in outgoing : ~Contains(g.edge_index, edge_id)
         THEN Thrown
         ELSE Success({g.edge_index[edge_id].from_id : edge_id \in outgoing})

get_children(g, vertex_id) ==
    IF ~Contains(g.adjacency_list, vertex_id)
    THEN Error("ABSENT_VERTX")
    ELSE LET outgoing == g.adjacency_list[vertex_id].outgoing_edges IN
         IF \E edge_id \in outgoing : ~Contains(g.edge_index, edge_id)
         THEN Thrown
         ELSE Success({g.edge_index[edge_id].to_id : edge_id \in outgoing})

\* A slip: the view of the incoming edges takes to_id.
get_parents_to_id(g, vertex_id) ==
    IF ~Contains(g.adjacency_list, vertex_id)
    THEN Error("ABSENT_VERTX")
    ELSE LET incoming == g.adjacency_list[vertex_id].incoming_edges IN
         IF \E edge_id \in incoming : ~Contains(g.edge_index, edge_id)
         THEN Thrown
         ELSE Success({g.edge_index[edge_id].to_id : edge_id \in incoming})

get_parents(g, vertex_id) ==
    IF ~Contains(g.adjacency_list, vertex_id)
    THEN Error("ABSENT_VERTX")
    ELSE LET incoming == g.adjacency_list[vertex_id].incoming_edges IN
         IF \E edge_id \in incoming : ~Contains(g.edge_index, edge_id)
         THEN Thrown
         ELSE Success({g.edge_index[edge_id].from_id : edge_id \in incoming})

\* A slip: both views are taken over incoming_edges and from_id.
get_neighbours_incoming_twice(g, vertex_id) ==
    IF ~Contains(g.adjacency_list, vertex_id)
    THEN Error("ABSENT_VERTX")
    ELSE LET incoming == g.adjacency_list[vertex_id].incoming_edges IN
         IF \E edge_id \in incoming : ~Contains(g.edge_index, edge_id)
         THEN Thrown
         ELSE LET children == {g.edge_index[edge_id].from_id : edge_id \in incoming}
                  parents == {g.edge_index[edge_id].from_id : edge_id \in incoming}
              IN Success(children \cup parents)

\* its own two views: children over outgoing_edges (to_id), parents over
\* incoming_edges (from_id); the set is built from the first and the second inserted
get_neighbours(g, vertex_id) ==
    IF ~Contains(g.adjacency_list, vertex_id)
    THEN Error("ABSENT_VERTX")
    ELSE LET outgoing == g.adjacency_list[vertex_id].outgoing_edges
             incoming == g.adjacency_list[vertex_id].incoming_edges
         IN
         IF \E edge_id \in outgoing \cup incoming : ~Contains(g.edge_index, edge_id)
         THEN Thrown
         ELSE LET children == {g.edge_index[edge_id].to_id : edge_id \in outgoing}
                  parents == {g.edge_index[edge_id].from_id : edge_id \in incoming}
              IN Success(children \cup parents)

get_outgoing_edges(g, vertex_id) ==
    IF ~Contains(g.adjacency_list, vertex_id)
    THEN Error("ABSENT_VERTX")
    ELSE Success(g.adjacency_list[vertex_id].outgoing_edges)

get_incoming_edges(g, vertex_id) ==
    IF ~Contains(g.adjacency_list, vertex_id)
    THEN Error("ABSENT_VERTX")
    ELSE Success(g.adjacency_list[vertex_id].incoming_edges)

\* A slip: the iteration starts one past begin(), so one value is not yielded.
Values_skips_begin(m) ==
    LET rest == IF DOMAIN m = {} THEN {} ELSE DOMAIN m \ {CHOOSE k \in DOMAIN m : TRUE} IN
    [x \in {m[k] : k \in rest} |-> Cardinality({k \in rest : m[k] = x})]

\* std::views::values over a map, iterated: every mapped value, once per key,
\* in no order (each value with the number of keys that hold it)
Values(m) ==
    [x \in {m[k] : k \in DOMAIN m} |-> Cardinality({k \in DOMAIN m : m[k] = x})]

\* The forward range a caller iterates at once; it is no Result.
get_vertices(g) == [range |-> Values(g.vertex_index)]

get_edges(g) == [range |-> Values(g.edge_index)]

(***************************************************************************)
(* The state machine: a caller makes one call after another on one graph.  *)
(***************************************************************************)
Call(op, args, ret) == [op |-> op, args |-> args, ret |-> ret]

\* The non-const members.
Mutators == {"add_vertex", "delete_vertex", "add_edge", "delete_edge"}

\* The edges of the edge table that start or end at vertex id.
IncidentEdges(g, id) ==
    {k \in DOMAIN g.edge_index :
        g.edge_index[k].from_id = id \/ g.edge_index[k].to_id = id}

Init ==
    /\ vertex_index = EmptyMap
    /\ edge_index = EmptyMap
    /\ adjacency_list = EmptyMap
    /\ last = Call("new", <<>>, <<>>)
    /\ repeated = FALSE
    /\ changed = FALSE
    /\ freed = {}
    /\ unbound = NotKept
    /\ res = Default
    /\ movable = {}
    /\ legacy = NoLegacy
    /\ SingleCaller

\* A call returns: the object becomes out.graph and the caller holds out.ret.
Return(op, args, out) ==
    /\ vertex_index' = out.graph.vertex_index
    /\ edge_index' = out.graph.edge_index
    /\ adjacency_list' = out.graph.adjacency_list
    /\ last' = Call(op, args, out.ret)
    /\ repeated' = (op \in Mutators /\ last.op = op /\ last.args = args /\ last.ret.is_success)
    /\ changed' = (out.graph # this)
    /\ unbound' = IF unbound = NotKept
                  THEN NotKept
                  ELSE IF op = "delete_edge"
                  THEN {this.edge_index[k] : k \in {id \in DOMAIN this.edge_index :
                                                        id = args[1] /\ out.ret.is_success}}
                  ELSE IF op = "add_edge" /\ last.op = "delete_edge" THEN unbound ELSE {}
    /\ UNCHANGED <<res, movable, callers, legacy>>

AddVertex(v) ==
    /\ Return("add_vertex", <<v>>, add_vertex(this, v))
    /\ freed' = {}

DeleteVertex(vertex_id) ==
    /\ Return("delete_vertex", <<vertex_id>>, delete_vertex(this, vertex_id))
    /\ freed' = IF last.op = "delete_edge" THEN freed ELSE {}

AddEdge(from_id, to_id, e) ==
    /\ Return("add_edge", <<from_id, to_id, e>>, add_edge(this, from_id, to_id, e))
    /\ freed' = {}

DeleteEdge(edge_id) ==
    LET out == delete_edge(this, edge_id) IN
    /\ Return("delete_edge", <<edge_id>>, out)
    /\ freed' = {id \in DOMAIN vertex_index :
                    /\ edge_id \in IncidentEdges(this, id)
                    /\ IncidentEdges(out.graph, id) = {}}

\* The query members that take a vertex id.
VertexQueries ==
    {"get_vertex", "get_children", "get_parents", "get_neighbours",
     "get_outgoing_edges", "get_incoming_edges"}

VertexQuery(g, op, id) ==
    CASE op = "get_vertex" -> get_vertex(g, id)
      [] op = "get_children" -> get_children(g, id)
      [] op = "get_parents" -> get_parents(g, id)
      [] op = "get_neighbours" -> get_neighbours(g, id)
      [] op = "get_outgoing_edges" -> get_outgoing_edges(g, id)
      [] op = "get_incoming_edges" -> get_incoming_edges(g, id)

\* The query members that return a set of ids.
SetQueries ==
    {"get_children", "get_parents", "get_neighbours",
     "get_outgoing_edges", "get_incoming_edges"}

\* A slip: the caller is handed a view of the object, as get_vertices hands out.
ReturnByValue_view(op, id, ret) == [ret |-> ret, view |-> <<op, id>>]

\* What the caller of the set query op(id) holds: these members build or copy
\* the set in a local and move it into the Result they return by value, so the
\* caller holds ret itself and no view of the object.
ReturnByValue(op, id, ret) == [ret |-> ret, view |-> <<>>]

\* What a caller reads in what it holds while the object is g.
Read(g, held) ==
    IF held.view = <<>> THEN held.ret ELSE VertexQuery(g, held.view[1], held.view[2])

\* The objects that one call of a non-const member can make of g.
Mutations(g) ==
    {add_vertex(g, v).graph : v \in Vertex}
    \cup {delete_vertex(g, id).graph : id \in VertexIds}
    \cup {add_edge(g, a[1], a[2], e).graph : a \in VertexIds \X VertexIds, e \in EdgePayload}
    \cup {delete_edge(g, k).graph : k \in EdgeIds}

\* A slip: the member is not const and reads adjacency_list[id], which makes an
\* entry for an id that has none.
QueryVertex_subscript(op, id) ==
    /\ Return(op, <<id>>,
              Outcome([this EXCEPT !.adjacency_list = Subscript(@, id)],
                      VertexQuery(this, op, id)))
    /\ freed' = {}

QueryVertex(op, id) ==
    /\ Return(op, <<id>>, Outcome(this, VertexQuery(this, op, id)))
    /\ freed' = {}

GetEdge(id) ==
    /\ Return("get_edge", <<id>>, Outcome(this, get_edge(this, id)))
    /\ freed' = {}

GetVertices ==
    /\ Return("get_vertices", <<>>, Outcome(this, get_vertices(this)))
    /\ freed' = {}

GetEdges ==
    /\ Return("get_edges", <<>>, Outcome(this, get_edges(this)))
    /\ freed' = {}

\* One call, with vertex payloads from V and edge payloads from E.
Step(V, E) ==
    \/ \E v \in V : AddVertex(v)
    \/ \E vertex_id \in VertexIds : DeleteVertex(vertex_id)
    \/ \E from_id \in VertexIds, to_id \in VertexIds, e \in E :
          AddEdge(from_id, to_id, e)
    \/ \E edge_id \in EdgeIds : DeleteEdge(edge_id)
    \/ \E op \in VertexQueries, id \in VertexIds : QueryVertex(op, id)
    \/ \E id \in EdgeIds : GetEdge(id)
    \/ GetVertices
    \/ GetEdges

\* Callers whose payloads hash to different ids whenever they are unequal.
Next == Step(Vertex, EdgePayload)

Spec == Init /\ [][Next]_vars

\* The same object and callers, with the history of unbound kept.
InitRebind ==
    /\ vertex_index = EmptyMap
    /\ edge_index = EmptyMap
    /\ adjacency_list = EmptyMap
    /\ last = Call("new", <<>>, <<>>)
    /\ repeated = FALSE
    /\ changed = FALSE
    /\ freed = {}
    /\ unbound = {}
    /\ res = Default
    /\ movable = {}
    /\ legacy = NoLegacy
    /\ SingleCaller

SpecRebind == InitRebind /\ [][Next]_vars

\* Callers that also pass an edge payload whose hash collides with another's.
NextEdgeCollision == Step(Vertex, EdgePayload \cup {CollidingEdge})

SpecEdgeCollision == Init /\ [][NextEdgeCollision]_vars

\* Callers that also pass a vertex payload whose hash collides with another's.
NextVertexCollision == Step(Vertex \cup {CollidingVertex}, EdgePayload)

SpecVertexCollision == Init /\ [][NextVertexCollision]_vars

(***************************************************************************)
(* The end-to-end scenario of the tests: five vertices and four edges,     *)
(* the calls made in any order.                                            *)
(***************************************************************************)
\* cgrapht::DefaultEdge(id)
DefaultEdge(id) == [id |-> id, tag |-> "x"]

ScenarioVertex ==
    {[id |-> 1, name |-> "One"], [id |-> 2, name |-> "Two"],
     [id |-> 3, name |-> "Three"], [id |-> 4, name |-> "Four"],
     [id |-> 5, name |-> "Five"]}

\* add_edge(v2, v1, DefaultEdge(21)) and the three others
ScenarioEdges ==
    {<<2, 1, DefaultEdge(21)>>, <<3, 1, DefaultEdge(31)>>,
     <<4, 2, DefaultEdge(42)>>, <<5, 2, DefaultEdge(52)>>}

\* The queries the scenario makes.
ScenarioQueries ==
    {<<"get_parents", 1>>, <<"get_children", 2>>, <<"get_neighbours", 2>>,
     <<"get_outgoing_edges", 1>>, <<"get_incoming_edges", 2>>}

ScenarioNext ==
    \/ \E v \in ScenarioVertex : AddVertex(v)
    \/ \E t \in ScenarioEdges : AddEdge(t[1], t[2], t[3])
    \/ \E q \in ScenarioQueries : QueryVertex(q[1], q[2])
    \/ DeleteEdge(42)
    \/ \E vertex_id \in {2, 4} : DeleteVertex(vertex_id)

SpecScenario == Init /\ [][ScenarioNext]_vars

\* ---- The DirectedGraph of the older header, src/headers/graph.hpp ----

legacy_add_vertex(g, v) ==
    LET vertex_id == HashV(v) IN
    IF ~Contains(g.vertex_index, vertex_id)
    THEN Outcome([g EXCEPT !.vertex_index = Emplace(@, vertex_id, v),
                           !.adjacency_list = Emplace(@, vertex_id, EdgeSet)],
                 Success(vertex_id))
    ELSE Outcome(g, Success(vertex_id))

legacy_delete_vertex(g, vertex_id) ==
    IF ~Contains(g.vertex_index, vertex_id)
    THEN Outcome(g, Error("ABSENT_VERTX"))
    ELSE IF /\ Contains(g.adjacency_list, vertex_id)
            /\ g.adjacency_list[vertex_id].incoming_edges = {}
            /\ g.adjacency_list[vertex_id].outgoing_edges = {}
         THEN Outcome([g EXCEPT !.adjacency_list = Erase(@, vertex_id),
                                !.vertex_index = Erase(@, vertex_id)],
                      Success(vertex_id))
         ELSE Outcome(g, Error("VERTEX_NOT_FREE"))

legacy_add_edge(g, from_id, to_id, e) ==
    IF ~Contains(g.vertex_index, from_id) \/ ~Contains(g.vertex_index, to_id)
    THEN Outcome(g, Error("ABSENT_VERTX"))
    ELSE LET edge_id == HashE(e) IN
         IF Contains(g.edge_index, edge_id)
         THEN LET edge_info == g.edge_index[edge_id] IN
              IF edge_info.from_id # from_id \/ edge_info.to_id # to_id
              THEN Outcome(g, Error("EDGE_ALREADY_EXISTS"))
              ELSE Outcome(g, Success(edge_id))
         ELSE LET stored == Emplace(g.edge_index, edge_id, Edge(from_id, to_id, e))
                  al1 == Subscript(g.adjacency_list, from_id)
                  al2 == [al1 EXCEPT ![from_id].outgoing_edges = @ \cup {edge_id}]
                  al3 == Subscript(al2, to_id)
                  al4 == [al3 EXCEPT ![to_id].incoming_edges = @ \cup {edge_id}]
              IN  Outcome([g EXCEPT !.edge_index = stored, !.adjacency_list = al4],
                          Success(edge_id))

legacy_delete_edge(g, edge_id) ==
    IF Contains(g.edge_index, edge_id)
    THEN LET from_id == g.edge_index[edge_id].from_id
             to_id == g.edge_index[edge_id].to_id
             al1 == Subscript(g.adjacency_list, from_id)
             al2 == [al1 EXCEPT ![from_id].outgoing_edges = @ \ {edge_id}]
             al3 == Subscript(al2, to_id)
             al4 == [al3 EXCEPT ![to_id].incoming_edges = @ \ {edge_id}]
         IN  Outcome([g EXCEPT !.edge_index = Erase(@, edge_id), !.adjacency_list = al4],
                     Success(edge_id))
    ELSE Outcome(g, Error("ABSENT_EDGE"))

legacy_get_vertex(g, id) ==
    IF Contains(g.vertex_index, id)
    THEN Success(g.vertex_index[id])
    ELSE Error("ABSENT_VERTX")

legacy_get_edge(g, id) ==
    IF Contains(g.edge_index, id)
    THEN Success(g.edge_index[id])
    ELSE Error("ABSENT_EDGE")

legacy_get_children(g, vertex_id) ==
    IF ~Contains(g.adjacency_list, vertex_id)
    THEN Error("ABSENT_VERTX")
    ELSE LET outgoing == g.adjacency_list[vertex_id].outgoing_edges IN
         IF \E edge_id \in outgoing : ~Contains(g.edge_index, edge_id)
         THEN Thrown
         ELSE Success({g.edge_index[edge_id].to_id : edge_id \in outgoing})

legacy_get_parents(g, vertex_id) ==
    IF ~Contains(g.adjacency_list, vertex_id)
    THEN Error("ABSENT_VERTX")
    ELSE LET incoming == g.adjacency_list[vertex_id].incoming_edges IN
         IF \E edge_id \in incoming : ~Contains(g.edge_index, edge_id)
         THEN Thrown
         ELSE Success({g.edge_index[edge_id].from_id : edge_id \in incoming})

\* Its view named children and its view named parents are both taken over
\* incoming_edges and from_id (lines 157-165).
legacy_get_neighbours(g, vertex_id) ==
    IF ~Contains(g.adjacency_list, vertex_id)
    THEN Error("ABSENT_VERTX")
    ELSE LET incoming == g.adjacency_list[vertex_id].incoming_edges IN
         IF \E edge_id \in incoming : ~Contains(g.edge_index, edge_id)
         THEN Thrown
         ELSE LET children == {g.edge_index[edge_id].from_id : edge_id \in incoming}
                  parents == {g.edge_index[edge_id].from_id : edge_id \in incoming}
              IN Success(children \cup parents)

\* The members that both headers declare, apart from the two views.
SharedMembers ==
    {"add_vertex", "delete_vertex", "add_edge", "delete_edge", "get_vertex",
     "get_edge", "get_children", "get_parents", "get_neighbours"}

\* The call op(args) on an object g of the current header.
Member(g, op, args) ==
    CASE op = "add_vertex" -> add_vertex(g, args[1])
      [] op = "delete_vertex" -> delete_vertex(g, args[1])
      [] op = "add_edge" -> add_edge(g, args[1], args[2], args[3])
      [] op = "delete_edge" -> delete_edge(g, args[1])
      [] op = "get_edge" -> Outcome(g, get_edge(g, args[1]))
      [] OTHER -> Outcome(g, VertexQuery(g, op, args[1]))

\* The call op(args) on an object g of the older header.
legacy_Member(g, op, args) ==
    CASE op = "add_vertex" -> legacy_add_vertex(g, args[1])
      [] op = "delete_vertex" -> legacy_delete_vertex(g, args[1])
      [] op = "add_edge" -> legacy_add_edge(g, args[1], args[2], args[3])
      [] op = "delete_edge" -> legacy_delete_edge(g, args[1])
      [] op = "get_vertex" -> Outcome(g, legacy_get_vertex(g, args[1]))
      [] op = "get_edge" -> Outcome(g, legacy_get_edge(g, args[1]))
      [] op = "get_children" -> Outcome(g, legacy_get_children(g, args[1]))
      [] op = "get_parents" -> Outcome(g, legacy_get_parents(g, args[1]))
      [] op = "get_neighbours" -> Outcome(g, legacy_get_neighbours(g, args[1]))

\* The arguments the callers pass to the member op.
Arguments(op) ==
    CASE op = "add_vertex" -> {<<v>> : v \in Vertex}
      [] op = "add_edge" ->
            {<<a[1], a[2], e>> : a \in VertexIds \X VertexIds, e \in EdgePayload}
      [] op \in {"delete_edge", "get_edge"} -> {<<k>> : k \in EdgeIds}
      [] OTHER -> {<<id>> : id \in VertexIds}

\* One call, made on the object of the current header and on the one of the
\* older header.
SideBySide(op) ==
    \E args \in Arguments(op) :
        LET out == Member(this, op, args)
            legacy_out == legacy_Member(legacy.graph, op, args)
        IN  /\ vertex_index' = out.graph.vertex_index
            /\ edge_index' = out.graph.edge_index
            /\ adjacency_list' = out.graph.adjacency_list
            /\ last' = Call(op, args, out.ret)
            /\ legacy' = legacy_out
            /\ UNCHANGED <<repeated, changed, freed, unbound, res, movable, callers>>

InitSideBySide ==
    /\ vertex_index = EmptyMap
    /\ edge_index = EmptyMap
    /\ adjacency_list = EmptyMap
    /\ last = Call("new", <<>>, <<>>)
    /\ repeated = FALSE
    /\ changed = FALSE
    /\ freed = {}
    /\ unbound = NotKept
    /\ res = Default
    /\ movable = {}
    /\ SingleCaller
    /\ legacy = Outcome(Graph(EmptyMap, EmptyMap, EmptyMap), <<>>)

NextSideBySide == \E op \in SharedMembers : SideBySide(op)

SpecSideBySide == InitSideBySide /\ [][NextSideBySide]_vars

\* ---- Two threads on one graph ----

\* adjacency_list[from_id].outgoing_edges.insert(edge_id)
InsertOutgoing(al, from_id, edge_id) ==
    [Subscript(al, from_id) EXCEPT ![from_id].outgoing_edges = @ \cup {edge_id}]

\* adjacency_list[to_id].incoming_edges.insert(edge_id)
InsertIncoming(al, to_id, edge_id) ==
    [Subscript(al, to_id) EXCEPT ![to_id].incoming_edges = @ \cup {edge_id}]

\* Thread t may start a call: it is in none, and where the callers lock, the
\* lock is free.
MayEnter(t) == pc[t] = Idle /\ (synchronized => mutex = NoThread)

\* Thread t runs one statement that leaves the graph as g and goes on at
\* statement at of the call op(args), holding the lock where the callers lock.
Goto(t, g, op, args, at) ==
    /\ vertex_index' = g.vertex_index
    /\ edge_index' = g.edge_index
    /\ adjacency_list' = g.adjacency_list
    /\ pc' = [pc EXCEPT ![t] = [at |-> at, op |-> op, args |-> args]]
    /\ mutex' = IF synchronized THEN t ELSE mutex
    /\ UNCHANGED <<last, repeated, changed, freed, unbound, res, movable, synchronized, legacy>>

\* Thread t runs the last statement of the call op(args), which leaves the
\* graph as g, returns ret and releases the lock; the thread ends.
Leave(t, g, op, args, ret) ==
    /\ vertex_index' = g.vertex_index
    /\ edge_index' = g.edge_index
    /\ adjacency_list' = g.adjacency_list
    /\ pc' = [pc EXCEPT ![t] = [at |-> "returned", op |-> op, args |-> args, ret |-> ret]]
    /\ mutex' = NoThread
    /\ UNCHANGED <<last, repeated, changed, freed, unbound, res, movable, synchronized, legacy>>

At(t, op, at) == pc[t] # Idle /\ pc[t].op = op /\ pc[t].at = at

\* Before the threads are started the graph is built by whole calls of
\* add_vertex and add_edge.
Populate ==
    /\ \A t \in Threads : pc[t] = Idle
    /\ \E g \in {add_vertex(this, v).graph : v \in Vertex} \cup
                {add_edge(this, from_id, to_id, e).graph :
                    from_id \in VertexIds, to_id \in VertexIds, e \in EdgePayload} :
           /\ vertex_index' = g.vertex_index
           /\ edge_index' = g.edge_index
           /\ adjacency_list' = g.adjacency_list
    /\ UNCHANGED <<last, repeated, changed, freed, unbound, res, movable, callers, legacy>>

\* add_edge, statement by statement: the presence test of both endpoints
AddEdgeTest(t) ==
    /\ MayEnter(t)
    /\ \E from_id, to_id \in VertexIds, e \in EdgePayload :
           LET args == <<from_id, to_id, e>> IN
           IF ~Contains(vertex_index, from_id) \/ ~Contains(vertex_index, to_id)
           THEN Leave(t, this, "add_edge", args, Error("ABSENT_VERTX"))
           ELSE Goto(t, this, "add_edge", args, "contains")

\* edge_index.contains(edge_id), and the branch for an id that is stored
AddEdgeContains(t) ==
    /\ At(t, "add_edge", "contains")
    /\ LET a == pc[t].args
           edge_id == HashE(a[3])
       IN  IF Contains(edge_index, edge_id)
           THEN Leave(t, this, "add_edge", a,
                      ExistingEdge(this, a[1], a[2], a[3], edge_id).ret)
           ELSE Goto(t, this, "add_edge", a, "emplace")

\* edge_index.emplace(edge_id, Edge{from_id, to_id, e})
AddEdgeEmplace(t) ==
    /\ At(t, "add_edge", "emplace")
    /\ LET a == pc[t].args IN
       Goto(t, [this EXCEPT !.edge_index = Emplace(@, HashE(a[3]), Edge(a[1], a[2], a[3]))],
            "add_edge", a, "outgoing")

AddEdgeOutgoing(t) ==
    /\ At(t, "add_edge", "outgoing")
    /\ LET a == pc[t].args IN
       Goto(t, [this EXCEPT !.adjacency_list = InsertOutgoing(@, a[1], HashE(a[3]))],
            "add_edge", a, "incoming")

AddEdgeIncoming(t) ==
    /\ At(t, "add_edge", "incoming")
    /\ LET a == pc[t].args IN
       Leave(t, [this EXCEPT !.adjacency_list = InsertIncoming(@, a[2], HashE(a[3]))],
             "add_edge", a, Success(HashE(a[3])))

\* delete_vertex, statement by statement: the presence test
DeleteVertexTest(t) ==
    /\ MayEnter(t)
    /\ \E vertex_id \in VertexIds :
           IF ~Contains(vertex_index, vertex_id)
           THEN Leave(t, this, "delete_vertex", <<vertex_id>>, Error("ABSENT_VERTX"))
           ELSE Goto(t, this, "delete_vertex", <<vertex_id>>, "free")

\* the test that the vertex has no edge
DeleteVertexFree(t) ==
    /\ At(t, "delete_vertex", "free")
    /\ LET a == pc[t].args IN
       IF IsFree(this, a[1])
       THEN Goto(t, this, "delete_vertex", a, "erase_adjacency")
       ELSE Leave(t, this, "delete_vertex", a, Error("VERTEX_NOT_FREE"))

DeleteVertexEraseAdjacency(t) ==
    /\ At(t, "delete_vertex", "erase_adjacency")
    /\ LET a == pc[t].args IN
       Goto(t, [this EXCEPT !.adjacency_list = Erase(@, a[1])],
            "delete_vertex", a, "erase_vertex")

DeleteVertexEraseVertex(t) ==
    /\ At(t, "delete_vertex", "erase_vertex")
    /\ LET a == pc[t].args IN
       Leave(t, [this EXCEPT !.vertex_index = Erase(@, a[1])],
             "delete_vertex", a, Success(a[1]))

InitThreads ==
    /\ vertex_index = EmptyMap
    /\ edge_index = EmptyMap
    /\ adjacency_list = EmptyMap
    /\ last = Call("new", <<>>, <<>>)
    /\ repeated = FALSE
    /\ changed = FALSE
    /\ freed = {}
    /\ unbound = NotKept
    /\ res = Default
    /\ movable = {}
    /\ legacy = NoLegacy
    /\ pc = [t \in Threads |-> Idle]
    /\ mutex = NoThread
    /\ synchronized \in BOOLEAN

NextThreads ==
    \/ Populate
    \/ AddEdgeTest("adder")
    \/ AddEdgeContains("adder")
    \/ AddEdgeEmplace("adder")
    \/ AddEdgeOutgoing("adder")
    \/ AddEdgeIncoming("adder")
    \/ DeleteVertexTest("deleter")
    \/ DeleteVertexFree("deleter")
    \/ DeleteVertexEraseAdjacency("deleter")
    \/ DeleteVertexEraseVertex("deleter")

SpecThreads == InitThreads /\ [][NextThreads]_vars

\* ---- The Result class on its own ----

\* The Results the two factories build from the payload values.
Results == {Success(x) : x \in Payload} \cup {Error(y) : y \in Payload}

\* A factory call, or an accessor call on the Result held: what the caller
\* holds afterwards and the call recorded. No graph takes part.
Hold(op, args, result, ret) ==
    /\ res' = result
    /\ last' = Call(op, args, ret)
    /\ changed' = (op \notin {"success", "error"} /\ result # res)
    /\ UNCHANGED <<vertex_index, edge_index, adjacency_list, repeated, freed, unbound, callers, legacy>>

\* Result<SUCCESS, ERROR>::success(x) and ::error(y), for a choice T of types
Construct ==
    \E T \in TypeChoices, x \in Payload :
        /\ movable' = T
        /\ \/ Hold("success", <<x>>, Success(x), Returned(Success(x)))
           \/ Hold("error", <<x>>, Error(x), Returned(Error(x)))

IsOk == Hold("is_ok", <<res>>, res, is_ok(res)) /\ UNCHANGED movable

GetOk ==
    /\ Hold("get_ok", <<res>>, get_ok(res).result, get_ok(res).ret)
    /\ UNCHANGED movable

GetError ==
    /\ Hold("get_error", <<res>>, get_error(res).result, get_error(res).ret)
    /\ UNCHANGED movable

ConsumeOk ==
    LET out == consume_ok(res, movable)
    IN  Hold("consume_ok", <<res>>, out.result, out.ret) /\ UNCHANGED movable

ConsumeError ==
    LET out == consume_error(res, movable)
    IN  Hold("consume_error", <<res>>, out.result, out.ret) /\ UNCHANGED movable

\* res == other, for types that can be compared (Movable has no operator==)
Compare ==
    /\ movable = {}
    /\ \E other \in Results :
           Hold("operator==", <<res, other>>, res, Returned(Equals(res, other)))
    /\ UNCHANGED movable

InitResult ==
    /\ vertex_index = EmptyMap
    /\ edge_index = EmptyMap
    /\ adjacency_list = EmptyMap
    /\ repeated = FALSE
    /\ changed = FALSE
    /\ freed = {}
    /\ unbound = NotKept
    /\ SingleCaller
    /\ legacy = NoLegacy
    /\ movable \in TypeChoices
    /\ \E x \in Payload :
           \/ res = Success(x) /\ last = Call("success", <<x>>, Returned(res))
           \/ res = Error(x) /\ last = Call("error", <<x>>, Returned(res))

NextResult ==
    \/ Construct
    \/ IsOk
    \/ GetOk
    \/ GetError
    \/ ConsumeOk
    \/ ConsumeError
    \/ Compare

SpecResult == InitResult /\ [][NextResult]_vars

\* ---- Copies and moves of a Result ----

\* Result(const Result&), implicitly defined: the variant and the flag are
\* copied, the source is left as it was.
Copied(r) == [source |-> r, made |-> r]

\* A slip: a move that leaves is_success of the new object at its initializer.
Moved_default_flag(r, T) ==
    [source |-> IF "ok" \in DOMAIN r
                THEN [r EXCEPT !.ok = MovedFrom(@, "SUCCESS" \in T)]
                ELSE IF "err" \in DOMAIN r
                     THEN [r EXCEPT !.err = MovedFrom(@, "ERROR" \in T)]
                     ELSE r,
     made |-> [r EXCEPT !.is_success = TRUE]]

\* Result(Result&&), implicitly defined: the variant move-constructs the
\* alternative it holds from the one of the source, which keeps that
\* alternative, moved from; the flag is copied.
Moved(r, T) ==
    [source |-> IF "ok" \in DOMAIN r
                THEN [r EXCEPT !.ok = MovedFrom(@, "SUCCESS" \in T)]
                ELSE IF "err" \in DOMAIN r
                     THEN [r EXCEPT !.err = MovedFrom(@, "ERROR" \in T)]
                     ELSE r,
     made |-> r]

\* Result c {res}; Movable has no copy constructor, so neither has a Result of it
CopyConstruct ==
    /\ movable = {}
    /\ Hold("copy", <<res>>, Copied(res).source, Returned(Copied(res).made))
    /\ UNCHANGED movable

\* Result c {std::move(res)};
MoveConstruct ==
    /\ Hold("move", <<res>>, Moved(res, movable).source, Returned(Moved(res, movable).made))
    /\ UNCHANGED movable

NextResultCopies ==
    \/ NextResult
    \/ CopyConstruct
    \/ MoveConstruct

SpecResultCopies == InitResult /\ [][NextResultCopies]_vars

\* ---- The Result of the older header, src/headers/models.hpp ----

\* Result r; there: the variant holds monostate, is_success and is_initialized
\* are true.
legacy_Default == [is_success |-> TRUE, is_initialized |-> TRUE]

legacy_Success(s) == [is_success |-> TRUE, is_initialized |-> TRUE, ok |-> s]

legacy_Error(e) == [is_success |-> FALSE, is_initialized |-> TRUE, err |-> e]

legacy_is_ok(r) == Returned(r.is_success)

legacy_get_ok(r) ==
    IF r.is_success
    THEN Accessed(r, Get(r, "ok"))
    ELSE Accessed(r, RuntimeError)

\* Its guard is !is_success: std::get<SUCCESS> is reached on an error Result
\* only.
legacy_consume_ok(r, T) ==
    IF ~r.is_success
    THEN Consume(r, "ok", "SUCCESS" \in T)
    ELSE Accessed(r, RuntimeError)

legacy_get_error(r) ==
    IF ~r.is_success
    THEN Accessed(r, Get(r, "err"))
    ELSE Accessed(r, RuntimeError)

\* Its guard is is_success: std::get<ERROR> is reached on a success Result only.
legacy_consume_error(r, T) ==
    IF r.is_success
    THEN Consume(r, "err", "ERROR" \in T)
    ELSE Accessed(r, RuntimeError)

\* operator== there: the flags and the variants are compared, is_initialized
\* is not.
legacy_Equals(r, other) ==
    /\ r.is_success = other.is_success
    /\ DOMAIN r \cap {"ok", "err"} = DOMAIN other \cap {"ok", "err"}
    /\ \A alt \in DOMAIN r \cap {"ok", "err"} : r[alt] = other[alt]

\* The two factories, by name, in each header.
Build(factory, x) == IF factory = "success" THEN Success(x) ELSE Error(x)

legacy_Build(factory, x) ==
    IF factory = "success" THEN legacy_Success(x) ELSE legacy_Error(x)

\* The accessors that take no argument, by name, in each header.
Accessors == {"is_ok", "get_ok", "get_error", "consume_ok", "consume_error"}

Access(op, r, T) ==
    CASE op = "is_ok" -> Accessed(r, is_ok(r))
      [] op = "get_ok" -> get_ok(r)
      [] op = "get_error" -> get_error(r)
      [] op = "consume_ok" -> consume_ok(r, T)
      [] op = "consume_error" -> consume_error(r, T)

legacy_Access(op, r, T) ==
    CASE op = "is_ok" -> Accessed(r, legacy_is_ok(r))
      [] op = "get_ok" -> legacy_get_ok(r)
      [] op = "get_error" -> legacy_get_error(r)
      [] op = "consume_ok" -> legacy_consume_ok(r, T)
      [] op = "consume_error" -> legacy_consume_error(r, T)

\* A call made on a Result of each header: what the callers hold afterwards.
HoldBoth(op, args, out, legacy_out) ==
    /\ res' = out.result
    /\ last' = Call(op, args, out.ret)
    /\ legacy' = legacy_out
    /\ UNCHANGED <<vertex_index, edge_index, adjacency_list, repeated, changed, freed,
                   unbound, callers>>

\* The same factory call in both headers.
BuildBoth ==
    \E T \in TypeChoices, factory \in {"success", "error"}, x \in Payload :
        /\ movable' = T
        /\ HoldBoth(factory, <<x>>,
                    Accessed(Build(factory, x), Returned(Build(factory, x))),
                    Accessed(legacy_Build(factory, x), Returned(legacy_Build(factory, x))))

\* The same accessor call on both.
AccessBoth(op) ==
    /\ HoldBoth(op, <<res>>, Access(op, res, movable),
                legacy_Access(op, legacy.result, movable))
    /\ UNCHANGED movable

\* Both compared with a Result built by the same factory call in their header.
CompareBoth ==
    /\ movable = {}
    /\ \E factory \in {"success", "error"}, x \in Payload :
           HoldBoth("operator==", <<res, Build(factory, x)>>,
                    Accessed(res, Returned(Equals(res, Build(factory, x)))),
                    Accessed(legacy.result,
                             Returned(legacy_Equals(legacy.result, legacy_Build(factory, x)))))
    /\ UNCHANGED movable

InitResultSideBySide ==
    /\ vertex_index = EmptyMap
    /\ edge_index = EmptyMap
    /\ adjacency_list = EmptyMap
    /\ repeated = FALSE
    /\ changed = FALSE
    /\ freed = {}
    /\ unbound = NotKept
    /\ SingleCaller
    /\ movable \in TypeChoices
    /\ \E factory \in {"success", "error"}, x \in Payload :
           /\ res = Build(factory, x)
           /\ last = Call(factory, <<x>>, Returned(res))
           /\ legacy = Accessed(legacy_Build(factory, x), Returned(legacy_Build(factory, x)))

NextResultSideBySide ==
    \/ BuildBoth
    \/ \E op \in Accessors : AccessBoth(op)
    \/ CompareBoth

SpecResultSideBySide == InitResultSideBySide /\ [][NextResultSideBySide]_vars

(***************************************************************************)
(* Properties.                                                             *)
(***************************************************************************)
\* The last call was member op with arguments args.
IsCall(op, args) == last.op = op /\ last.args = args

\* The last call returned (did not throw) a success.
ReturnedOk == "is_success" \in DOMAIN last.ret /\ last.ret.is_success

\* Vertex id has an adjacency entry with a non-empty incoming or outgoing set.
HasAdjacentEdge(id) ==
    /\ Contains(adjacency_list, id)
    /\ \/ adjacency_list[id].incoming_edges # {}
       \/ adjacency_list[id].outgoing_edges # {}

\* C1: every edge id k of the edge table, with record (f, t, payload), is in the
\* outgoing set of f and in the incoming set of t, and in no other vertex's
\* outgoing set and no other vertex's incoming set (self-loops included).
C1_EdgeInExactlyItsEndpointSets ==
    \A k \in DOMAIN edge_index :
        LET f == edge_index[k].from_id
            t == edge_index[k].to_id
        IN /\ Contains(adjacency_list, f)
           /\ k \in adjacency_list[f].outgoing_edges
           /\ Contains(adjacency_list, t)
           /\ k \in adjacency_list[t].incoming_edges
           /\ \A u \in DOMAIN adjacency_list :
                /\ k \in adjacency_list[u].outgoing_edges => u = f
                /\ k \in adjacency_list[u].incoming_edges => u = t

\* A self-loop and an edge between two different vertices are stored together,
\* the second of them by the add_edge that just returned.
C1_Witness ==
    /\ last.op = "add_edge"
    /\ ReturnedOk
    /\ \E k1 \in DOMAIN edge_index, k2 \in DOMAIN edge_index :
          /\ edge_index[k1].from_id = edge_index[k1].to_id
          /\ edge_index[k2].from_id # edge_index[k2].to_id
          /\ last.ret.ok = k2

\* C2: delete_vertex(id) on a present vertex with a non-empty incoming or
\* outgoing set returns VERTEX_NOT_FREE and removes nothing; and no step at all
\* removes a vertex that still has an incident edge from the vertex table.
C2_NotFreeVertexStays ==
    [][\A id \in DOMAIN vertex_index :
          /\ HasAdjacentEdge(id) =>
                (IsCall("delete_vertex", <<id>>)' =>
                    /\ last'.ret = Error("VERTEX_NOT_FREE")
                    /\ this' = this)
          /\ (HasAdjacentEdge(id) \/ IncidentEdges(this, id) # {}) =>
                Contains(vertex_index', id)]_vars

\* delete_vertex was just refused on a vertex that has an incoming edge only.
C2_Witness ==
    /\ last.op = "delete_vertex"
    /\ last.ret = Error("VERTEX_NOT_FREE")
    /\ Contains(vertex_index, last.args[1])
    /\ adjacency_list[last.args[1]].incoming_edges # {}
    /\ adjacency_list[last.args[1]].outgoing_edges = {}

\* The edge id of payload e is bound, in the edge table, to the pair (a, b):
\* an add_edge(a, b, e) has succeeded and the edge has not been deleted since.
Bound(e, a, b) ==
    /\ Contains(edge_index, HashE(e))
    /\ edge_index[HashE(e)].from_id = a
    /\ edge_index[HashE(e)].to_id = b

\* The a (the b) of the pair (a, b) that the edge id of e is bound to, if any.
BoundFrom(e) ==
    IF Contains(edge_index, HashE(e)) THEN {edge_index[HashE(e)].from_id} ELSE {}

BoundTo(e) ==
    IF Contains(edge_index, HashE(e)) THEN {edge_index[HashE(e)].to_id} ELSE {}

\* C3 as stated: with hash(e) bound to (a, b), add_edge(c, d, e) fails with
\* EDGE_ALREADY_EXISTS for every pair (c, d) # (a, b), and afterwards
\* get_edge(hash(e)) returns the stored record and the adjacency sets are as before.
C3_Original ==
    \A e \in EdgePayload \cup {CollidingEdge}, c \in VertexIds, d \in VertexIds :
        \A a \in BoundFrom(e), b \in BoundTo(e) :
          <<c, d>> # <<a, b>> =>
            LET out == add_edge(this, c, d, e) IN
            /\ out.ret = Error("EDGE_ALREADY_EXISTS")
            /\ get_edge(out.graph, HashE(e)) = Success(edge_index[HashE(e)])
            /\ out.graph.adjacency_list = adjacency_list

\* C3, amended: with hash(e) bound to (a, b), add_edge(c, d, e) for a pair
\* (c, d) # (a, b) fails with EDGE_ALREADY_EXISTS when c and d are both in the
\* vertex table, and with ABSENT_VERTX when one of them is not; either way
\* get_edge(hash(e)) afterwards returns the record stored before the call, bound
\* to (a, b) (it is (a, b, e) when e is the payload that was stored), and every
\* adjacency set is as before.
C3_ConflictRejected ==
    \A e \in EdgePayload \cup {CollidingEdge}, c \in VertexIds, d \in VertexIds :
        \A a \in BoundFrom(e), b \in BoundTo(e) :
          <<c, d>> # <<a, b>> =>
            LET out == add_edge(this, c, d, e)
                after == get_edge(out.graph, HashE(e))
            IN
            /\ out.ret = IF Contains(vertex_index, c) /\ Contains(vertex_index, d)
                         THEN Error("EDGE_ALREADY_EXISTS")
                         ELSE Error("ABSENT_VERTX")
            /\ after = get_edge(this, HashE(e))
            /\ after.is_success
            /\ after.ok.from_id = a /\ after.ok.to_id = b
            /\ edge_index[HashE(e)].edge = e => after = Success(Edge(a, b, e))
            /\ out.graph.adjacency_list = adjacency_list
            /\ out.graph.vertex_index = vertex_index

\* add_edge(c, d, e) was just refused with EDGE_ALREADY_EXISTS: the id of e is
\* bound to another pair, which shares an endpoint with (c, d).
C3_Witness ==
    /\ last.op = "add_edge"
    /\ last.ret = Error("EDGE_ALREADY_EXISTS")
    /\ Contains(edge_index, HashE(last.args[3]))
    /\ edge_index[HashE(last.args[3])].edge = last.args[3]
    /\ edge_index[HashE(last.args[3])].from_id = last.args[1]
    /\ edge_index[HashE(last.args[3])].to_id # last.args[2]

\* C4: from the add_edge that first stores edge id k until the delete_edge(k)
\* that removes it, the record get_edge(k) returns never changes: every step
\* from a state that holds k either leaves get_edge(k) as it was or is the
\* successful delete_edge(k).
C4_EdgeRecordImmutable ==
    [][\A k \in DOMAIN edge_index :
          \/ get_edge(this, k)' = get_edge(this, k)
          \/ /\ IsCall("delete_edge", <<k>>)'
             /\ last'.ret = Success(k)
             /\ ~Contains(edge_index', k)]_vars

\* add_edge was just called with the endpoints of a stored edge and a payload
\* that hashes to its id but is not the payload stored.
C4_Witness ==
    /\ last.op = "add_edge"
    /\ ReturnedOk
    /\ Contains(edge_index, HashE(last.args[3]))
    /\ edge_index[HashE(last.args[3])].edge # last.args[3]

\* C5: when delete_edge has just removed the last incident edge of a present
\* vertex, a delete_vertex on that vertex made as the very next call succeeds,
\* returns the vertex id and removes the vertex from both the vertex table and
\* the adjacency index, leaving all else alone.
C5_DeleteVertexAfterLastEdge ==
    \A id \in freed :
        last.op = "delete_edge" =>
            /\ Contains(vertex_index, id)
            /\ adjacency_list[id] = EdgeSet
            /\ delete_vertex(this, id) =
                  Outcome(Graph(Erase(vertex_index, id), edge_index,
                                Erase(adjacency_list, id)),
                          Success(id))

\* delete_vertex has just succeeded on a vertex whose last incident edge was
\* removed by the delete_edge made right before it.
C5_Witness ==
    /\ last.op = "delete_vertex"
    /\ last.args[1] \in freed
    /\ last.ret = Success(last.args[1])
    /\ ~Contains(vertex_index, last.args[1])

\* A Result that holds a success (and not a thrown exception or an error).
Ok(r) == "is_success" \in DOMAIN r /\ r.is_success

\* C6: for every payload v, in every state, add_vertex(v) called twice in a row
\* returns the same id, hash(v), both times; the state after the second call is
\* the state after the first, with one vertex stored under hash(v) and the
\* vertex count not grown by the second call.
C6_AddVertexIdempotent ==
    \A v \in Vertex \cup {CollidingVertex} :
        LET first == add_vertex(this, v)
            second == add_vertex(first.graph, v)
        IN /\ first.ret = Success(HashV(v))
           /\ second.ret = first.ret
           /\ second.graph = first.graph
           /\ Contains(second.graph.vertex_index, HashV(v))
           /\ Cardinality(DOMAIN second.graph.vertex_index)
                 = Cardinality(DOMAIN first.graph.vertex_index)

\* add_vertex(v) has just returned for the second time in a row, and the vertex
\* is stored.
C6_Witness ==
    /\ last.op = "add_vertex"
    /\ repeated
    /\ ReturnedOk
    /\ Contains(vertex_index, HashV(last.args[1]))

\* C7: if add_edge(a, b, e) succeeds, the same call made again right away
\* succeeds too, returns the same edge id, and leaves the vertex table, the edge
\* table and every adjacency set as the first call left them.
C7_AddEdgeIdempotent ==
    \A a \in VertexIds, b \in VertexIds, e \in EdgePayload \cup {CollidingEdge} :
        LET first == add_edge(this, a, b, e) IN
        Ok(first.ret) =>
            LET second == add_edge(first.graph, a, b, e) IN
            /\ first.ret = Success(HashE(e))
            /\ second.ret = first.ret
            /\ second.graph = first.graph
            /\ Contains(second.graph.edge_index, HashE(e))

\* add_edge(a, b, e) has just succeeded for the second time in a row.
C7_Witness ==
    /\ last.op = "add_edge"
    /\ repeated
    /\ ReturnedOk
    /\ Bound(last.args[3], last.args[1], last.args[2])

\* C8: right after a successful add_edge(a, b, e), in any state, get_children(a)
\* contains b, get_parents(b) contains a, get_outgoing_edges(a) contains hash(e)
\* and get_incoming_edges(b) contains hash(e).
C8_AddEdgeSymmetry ==
    \A a \in VertexIds, b \in VertexIds, e \in EdgePayload \cup {CollidingEdge} :
        LET out == add_edge(this, a, b, e)
            g == out.graph
        IN Ok(out.ret) =>
            /\ Ok(get_children(g, a)) /\ b \in get_children(g, a).ok
            /\ Ok(get_parents(g, b)) /\ a \in get_parents(g, b).ok
            /\ Ok(get_outgoing_edges(g, a))
            /\ HashE(e) \in get_outgoing_edges(g, a).ok
            /\ Ok(get_incoming_edges(g, b))
            /\ HashE(e) \in get_incoming_edges(g, b).ok

\* add_edge(a, b, e) with a # b has just succeeded, not as a repetition, and the
\* four queries show the edge.
C8_Witness ==
    /\ last.op = "add_edge"
    /\ ReturnedOk
    /\ ~repeated
    /\ last.args[1] # last.args[2]
    /\ last.args[2] \in get_children(this, last.args[1]).ok
    /\ last.args[1] \in get_parents(this, last.args[2]).ok
    /\ last.ret.ok \in get_outgoing_edges(this, last.args[1]).ok
    /\ last.ret.ok \in get_incoming_edges(this, last.args[2]).ok

\* The five queries that return a set.
AdjacencyQueries == VertexQueries \ {"get_vertex"}

\* An id that no call of the model ever inserts.
NeverInserted == MaxVertexId + 1

\* C9: in every state, each of get_vertex, get_children, get_parents,
\* get_neighbours, get_outgoing_edges and get_incoming_edges returns
\* ABSENT_VERTX exactly when the id is not in the vertex table; on a present
\* vertex with no incident edge the five adjacency queries return success with
\* an empty set.
C9_AbsentVertexQueries ==
    \A id \in VertexIds \cup {NeverInserted} :
        /\ \A op \in VertexQueries :
              (VertexQuery(this, op, id) = Error("ABSENT_VERTX"))
                  <=> ~Contains(vertex_index, id)
        /\ (Contains(vertex_index, id) /\ IncidentEdges(this, id) = {}) =>
              \A op \in AdjacencyQueries : VertexQuery(this, op, id) = Success({})

\* An adjacency query has just returned an empty set for a present vertex, in a
\* graph where another id is absent.
C9_Witness ==
    /\ last.op \in AdjacencyQueries
    /\ last.ret = Success({})
    /\ Contains(vertex_index, last.args[1])
    /\ \E id \in VertexIds : ~Contains(vertex_index, id)

EdgesFrom(id) == {k \in DOMAIN edge_index : edge_index[k].from_id = id}

EdgesTo(id) == {k \in DOMAIN edge_index : edge_index[k].to_id = id}

\* C11: for every present vertex id, in every state, get_outgoing_edges(id) is
\* the set of edge ids whose record has from_id = id, get_incoming_edges(id) the
\* set of those with to_id = id, get_children(id) the set of the to_id of the
\* former and get_parents(id) the set of the from_id of the latter; being sets,
\* they hold a vertex once however many parallel edges lead to it.
C11_QueriesAgreeWithEdgeTable ==
    \A id \in DOMAIN vertex_index :
        /\ get_outgoing_edges(this, id) = Success(EdgesFrom(id))
        /\ get_incoming_edges(this, id) = Success(EdgesTo(id))
        /\ get_children(this, id) = Success({edge_index[k].to_id : k \in EdgesFrom(id)})
        /\ get_parents(this, id) = Success({edge_index[k].from_id : k \in EdgesTo(id)})

\* get_parents has just returned one parent for a vertex that two parallel
\* edges from another vertex end at.
C11_Witness ==
    /\ last.op = "get_parents"
    /\ ReturnedOk
    /\ Cardinality(EdgesTo(last.args[1])) = 2
    /\ Cardinality(last.ret.ok) = 1
    /\ last.args[1] \notin last.ret.ok

\* C12: add_edge(from, to, e) returns ABSENT_VERTX whenever from or to, or both,
\* is not in the vertex table, and then stores nothing; an edge id that was
\* absent is still absent, and add_edge with the same payload between any two
\* present vertices, made next, succeeds with hash(e).
C12_AbsentEndpointStoresNothing ==
    \A from_id \in VertexIds \cup {NeverInserted},
       to_id \in VertexIds \cup {NeverInserted}, e \in EdgePayload :
        (~Contains(vertex_index, from_id) \/ ~Contains(vertex_index, to_id)) =>
            LET out == add_edge(this, from_id, to_id, e) IN
            /\ out.ret = Error("ABSENT_VERTX")
            /\ out.graph = this
            /\ ~Contains(edge_index, HashE(e)) =>
                  /\ ~Contains(out.graph.edge_index, HashE(e))
                  /\ \A a \in DOMAIN vertex_index, b \in DOMAIN vertex_index :
                        LET later == add_edge(out.graph, a, b, e) IN
                        /\ later.ret = Success(HashE(e))
                        /\ get_edge(later.graph, HashE(e)) = Success(Edge(a, b, e))

\* add_edge was just refused with ABSENT_VERTX with one endpoint present and
\* the other not, and the edge id of its payload is not in the edge table.
C12_Witness ==
    /\ last.op = "add_edge"
    /\ last.ret = Error("ABSENT_VERTX")
    /\ Contains(vertex_index, last.args[1])
    /\ ~Contains(vertex_index, last.args[2])
    /\ ~Contains(edge_index, HashE(last.args[3]))

\* C13: in every state delete_vertex(id) returns ABSENT_VERTX exactly when id
\* is not in the vertex table (the empty graph and an id never added
\* included), and after a delete_vertex(id) that succeeded the same call made
\* again returns ABSENT_VERTX.
C13_DeleteVertexAbsent ==
    \A id \in VertexIds \cup {NeverInserted} :
        LET first == delete_vertex(this, id) IN
        /\ (first.ret = Error("ABSENT_VERTX")) <=> ~Contains(vertex_index, id)
        /\ Ok(first.ret) =>
              delete_vertex(first.graph, id) = Outcome(first.graph, Error("ABSENT_VERTX"))

\* delete_vertex(id) has just returned ABSENT_VERTX, right after the same call
\* had succeeded.
C13_Witness ==
    /\ last.op = "delete_vertex"
    /\ repeated
    /\ last.ret = Error("ABSENT_VERTX")

\* C14: a delete_vertex(id) that succeeds returns id and erases id from the
\* vertex table and the adjacency index: afterwards get_vertex(id) and the five
\* adjacency queries on id return ABSENT_VERTX, get_vertices() does not yield
\* the payload that was stored, and it yields exactly one vertex fewer.
C14_DeleteVertexRemoves ==
    \A id \in VertexIds :
        LET out == delete_vertex(this, id) IN
        Ok(out.ret) =>
            /\ out.ret = Success(id)
            /\ ~Contains(out.graph.vertex_index, id)
            /\ ~Contains(out.graph.adjacency_list, id)
            /\ \A op \in VertexQueries :
                  VertexQuery(out.graph, op, id) = Error("ABSENT_VERTX")
            /\ ~BagIn(vertex_index[id], get_vertices(out.graph).range)
            /\ BagCardinality(get_vertices(out.graph).range)
                  = BagCardinality(get_vertices(this).range) - 1
            /\ out.graph.edge_index = edge_index

\* delete_vertex has just succeeded and another vertex is still stored.
C14_Witness ==
    /\ last.op = "delete_vertex"
    /\ ReturnedOk
    /\ ~Contains(vertex_index, last.args[1])
    /\ ~Contains(adjacency_list, last.args[1])
    /\ BagCardinality(get_vertices(this).range) = 1

\* C15: a delete_edge(id) that succeeds returns id, erases the record of id
\* from the edge table, removes id from the outgoing set of its from vertex and
\* from the incoming set of its to vertex, and leaves every other edge record,
\* every other member of every adjacency set and the vertex table as they were;
\* get_edges() yields exactly one record fewer.
C15_DeleteEdgeRemoves ==
    \A id \in EdgeIds :
        LET out == delete_edge(this, id) IN
        Ok(out.ret) =>
            LET f == edge_index[id].from_id
                t == edge_index[id].to_id
            IN
            /\ out.ret = Success(id)
            /\ ~Contains(out.graph.edge_index, id)
            /\ id \notin out.graph.adjacency_list[f].outgoing_edges
            /\ id \notin out.graph.adjacency_list[t].incoming_edges
            /\ \A k \in DOMAIN edge_index \ {id} :
                  /\ Contains(out.graph.edge_index, k)
                  /\ out.graph.edge_index[k] = edge_index[k]
            /\ BagCardinality(get_edges(out.graph).range)
                  = BagCardinality(get_edges(this).range) - 1
            /\ ~BagIn(edge_index[id], get_edges(out.graph).range)
            /\ DOMAIN out.graph.adjacency_list = DOMAIN adjacency_list
            /\ \A u \in DOMAIN adjacency_list :
                  /\ out.graph.adjacency_list[u].outgoing_edges
                        = adjacency_list[u].outgoing_edges \ {id}
                  /\ out.graph.adjacency_list[u].incoming_edges
                        = adjacency_list[u].incoming_edges \ {id}
            /\ out.graph.vertex_index = vertex_index

\* delete_edge has just succeeded and one edge, between two different
\* vertices, is still stored.
C15_Witness ==
    /\ last.op = "delete_edge"
    /\ ReturnedOk
    /\ ~Contains(edge_index, last.args[1])
    /\ \E k \in DOMAIN edge_index :
          /\ edge_index[k].from_id # edge_index[k].to_id
          /\ k \in adjacency_list[edge_index[k].from_id].outgoing_edges
    /\ BagCardinality(get_edges(this).range) = 1

\* An edge id that no call of the model ever adds.
NeverAdded == MaxEdgeId + 1

\* C16: in every state get_edge(id) and delete_edge(id) return ABSENT_EDGE
\* exactly when id is not in the edge table (an id never added included), and
\* after a delete_edge(id) that succeeded both return ABSENT_EDGE for id.
C16_AbsentEdge ==
    \A id \in EdgeIds \cup {NeverAdded} :
        LET first == delete_edge(this, id) IN
        /\ (get_edge(this, id) = Error("ABSENT_EDGE")) <=> ~Contains(edge_index, id)
        /\ (first.ret = Error("ABSENT_EDGE")) <=> ~Contains(edge_index, id)
        /\ Ok(first.ret) =>
              /\ get_edge(first.graph, id) = Error("ABSENT_EDGE")
              /\ delete_edge(first.graph, id) = Outcome(first.graph, Error("ABSENT_EDGE"))

\* delete_edge(id) has just returned ABSENT_EDGE, right after the same call had
\* succeeded, while another edge is stored.
C16_Witness ==
    /\ last.op = "delete_edge"
    /\ repeated
    /\ last.ret = Error("ABSENT_EDGE")
    /\ DOMAIN edge_index # {}

\* C17: in every state and for every payload v, add_vertex(v) returns a
\* success holding hash(v), never an error; when hash(v) was not in the vertex
\* table, get_vertex(hash(v)) afterwards returns v, and the new vertex has an
\* empty incoming and an empty outgoing set.
C17_AddVertexStores ==
    \A v \in Vertex \cup {CollidingVertex} :
        LET out == add_vertex(this, v)
            g == out.graph
        IN
        /\ out.ret = Success(HashV(v))
        /\ ~Contains(vertex_index, HashV(v)) =>
              /\ get_vertex(g, HashV(v)) = Success(v)
              /\ get_outgoing_edges(g, HashV(v)) = Success({})
              /\ get_incoming_edges(g, HashV(v)) = Success({})
              /\ g.adjacency_list[HashV(v)] = EdgeSet

\* add_vertex has just stored a vertex that was not there, in a graph that
\* holds an edge.
C17_Witness ==
    /\ last.op = "add_vertex"
    /\ ReturnedOk
    /\ changed
    /\ get_vertex(this, last.ret.ok) = Success(last.args[1])
    /\ adjacency_list[last.ret.ok] = EdgeSet
    /\ DOMAIN edge_index # {}

\* C18: a stored vertex payload is never updated.  For every id in the vertex
\* table, every step either leaves what get_vertex(id) returns as it was or is
\* the delete_vertex(id) that succeeds; and a step that is add_vertex(v2) with
\* hash(v2) = id, v2 equal to the stored payload or not, returns id and leaves
\* the payload, the adjacency sets of id and all the rest as they were.
C18_VertexPayloadImmutable ==
    [][\A id \in DOMAIN vertex_index :
          /\ \/ get_vertex(this, id)' = get_vertex(this, id)
             \/ /\ IsCall("delete_vertex", <<id>>)'
                /\ last'.ret = Success(id)
                /\ ~Contains(vertex_index', id)
          /\ (last'.op = "add_vertex" /\ HashV(last'.args[1]) = id) =>
                /\ last'.ret = Success(id)
                /\ this' = this]_vars

\* add_vertex has just returned for a payload that hashes to the id of a
\* stored vertex and is not the payload stored, the vertex having an edge.
C18_Witness ==
    /\ last.op = "add_vertex"
    /\ ReturnedOk
    /\ Contains(vertex_index, HashV(last.args[1]))
    /\ vertex_index[HashV(last.args[1])] # last.args[1]
    /\ HasAdjacentEdge(HashV(last.args[1]))

\* C19: when hash(e) is not in the edge table and add_edge(a, b, e) succeeds,
\* it returns hash(e), get_edge(hash(e)) afterwards returns the record with
\* from_id = a, to_id = b and payload e, and get_edges() yields that record,
\* along with the records it yielded before.
C19_AddEdgeStores ==
    \A a \in VertexIds, b \in VertexIds, e \in EdgePayload \cup {CollidingEdge} :
        LET out == add_edge(this, a, b, e) IN
        (~Contains(edge_index, HashE(e)) /\ Ok(out.ret)) =>
            /\ out.ret = Success(HashE(e))
            /\ get_edge(out.graph, HashE(e)) = Success(Edge(a, b, e))
            /\ BagIn(Edge(a, b, e), get_edges(out.graph).range)
            /\ get_edges(out.graph).range
                  = get_edges(this).range (+) SetToBag({Edge(a, b, e)})

\* add_edge has just stored a record that was not there, next to another one.
C19_Witness ==
    /\ last.op = "add_edge"
    /\ ReturnedOk
    /\ changed
    /\ get_edge(this, last.ret.ok)
          = Success(Edge(last.args[1], last.args[2], last.args[3]))
    /\ BagCardinality(get_edges(this).range) = 2

\* A returned value that is a Result holding an error.
IsError(r) == "is_success" \in DOMAIN r /\ ~r.is_success

\* C20: every call, of add_edge, delete_vertex, delete_edge or a query, that
\* returns an error leaves the vertex table, the edge table and the adjacency
\* index, the set of its keys included, exactly as they were before the call.
C20_ErrorLeavesObject ==
    [][IsError(last'.ret) =>
          /\ vertex_index' = vertex_index
          /\ edge_index' = edge_index
          /\ adjacency_list' = adjacency_list
          /\ DOMAIN adjacency_list' = DOMAIN adjacency_list]_vars

\* add_edge was just refused with ABSENT_VERTX, its from vertex absent and its
\* to vertex present, and there is no adjacency entry for the absent one.
C20_Witness ==
    /\ last.op = "add_edge"
    /\ IsError(last.ret)
    /\ ~changed
    /\ ~Contains(vertex_index, last.args[1])
    /\ Contains(vertex_index, last.args[2])
    /\ ~Contains(adjacency_list, last.args[1])

\* The four codes of ErrorType that no member is to return.
Reserved == {"INVALID_ARGUMENT", "INVALID_OPERATION", "OUT_OF_RANGE", "UNKNOWN"}

\* r is a Result that holds a success or one of the error codes errs.
Listed(r, errs) == Ok(r) \/ (IsError(r) /\ r.err \in errs \ Reserved)

\* C21: in every state, whatever the arguments, add_vertex returns a success;
\* delete_vertex a success, ABSENT_VERTX or VERTEX_NOT_FREE; add_edge a success,
\* ABSENT_VERTX or EDGE_ALREADY_EXISTS; delete_edge and get_edge a success or
\* ABSENT_EDGE; get_vertex and the five adjacency queries a success or
\* ABSENT_VERTX; none returns INVALID_ARGUMENT, INVALID_OPERATION, OUT_OF_RANGE
\* or UNKNOWN, and none ends otherwise than by returning a Result.
C21_OnlyListedErrors ==
    /\ \A v \in Vertex \cup {CollidingVertex} : Listed(add_vertex(this, v).ret, {})
    /\ \A id \in VertexIds \cup {NeverInserted} :
          /\ Listed(delete_vertex(this, id).ret, {"ABSENT_VERTX", "VERTEX_NOT_FREE"})
          /\ \A op \in VertexQueries :
                Listed(VertexQuery(this, op, id), {"ABSENT_VERTX"})
    /\ \A from_id \in VertexIds \cup {NeverInserted},
          to_id \in VertexIds \cup {NeverInserted},
          e \in EdgePayload \cup {CollidingEdge} :
          Listed(add_edge(this, from_id, to_id, e).ret,
                 {"ABSENT_VERTX", "EDGE_ALREADY_EXISTS"})
    /\ \A id \in EdgeIds \cup {NeverAdded} :
          /\ Listed(delete_edge(this, id).ret, {"ABSENT_EDGE"})
          /\ Listed(get_edge(this, id), {"ABSENT_EDGE"})
    /\ IsError(last.ret) => last.ret.err \in ErrorType \ Reserved

\* get_parents has just returned the one parent of a vertex whose incoming
\* edge is the only edge stored (edge_index.at was applied to a stored id).
C21_Witness ==
    /\ last.op = "get_parents"
    /\ ReturnedOk
    /\ Cardinality(last.ret.ok) = 1
    /\ Cardinality(DOMAIN edge_index) = 1
    /\ Cardinality(adjacency_list[last.args[1]].incoming_edges) = 1

\* The stages of a vertex id: absent, present with no incident edge, present
\* with an incident edge.
Absent(id) == ~Contains(vertex_index, id)

Connected(id) == HasAdjacentEdge(id) \/ IncidentEdges(this, id) # {}

Isolated(id) == Contains(vertex_index, id) /\ ~Connected(id)

\* C22: every vertex id goes absent -> present-isolated -> present-connected
\* -> present-isolated -> absent.  In every step: an absent id that becomes
\* present does so by add_vertex of a payload with that hash and is isolated;
\* an isolated id that becomes connected does so by a successful add_edge with
\* that endpoint; a connected id is present in the next state, and leaves the
\* connected stage only by a successful delete_edge; a present id becomes
\* absent only by a successful delete_vertex of it.
C22_VertexLifecycle ==
    [][\A id \in VertexIds :
          /\ Absent(id) =>
                \/ Absent(id)'
                \/ /\ Isolated(id)'
                   /\ last'.op = "add_vertex"
                   /\ HashV(last'.args[1]) = id
                   /\ last'.ret = Success(id)
          /\ Isolated(id) =>
                \/ Isolated(id)'
                \/ /\ Connected(id)' /\ Contains(vertex_index', id)
                   /\ last'.op = "add_edge"
                   /\ id \in {last'.args[1], last'.args[2]}
                   /\ last'.ret = Success(HashE(last'.args[3]))
                \/ /\ Absent(id)'
                   /\ IsCall("delete_vertex", <<id>>)'
                   /\ last'.ret = Success(id)
          /\ Connected(id) =>
                /\ Contains(vertex_index', id)
                /\ \/ Connected(id)'
                   \/ /\ Isolated(id)'
                      /\ last'.op = "delete_edge"
                      /\ last'.ret = Success(last'.args[1])]_vars

\* add_edge has just stored the only edge of the graph, between two different
\* vertices: both were isolated and are connected now.
C22_Witness ==
    /\ last.op = "add_edge"
    /\ ReturnedOk
    /\ changed
    /\ DOMAIN edge_index = {last.ret.ok}
    /\ last.args[1] # last.args[2]
    /\ Connected(last.args[1]) /\ Connected(last.args[2])

\* The range yields exactly what table m holds, one value per key of m.
YieldsTable(range, m) ==
    /\ BagCardinality(range) = Cardinality(DOMAIN m)
    /\ BagToSet(range) = {m[k] : k \in DOMAIN m}
    /\ \A k \in DOMAIN m : CopiesIn(m[k], range) = 1
    /\ DOMAIN m = {} => range = EmptyBag

\* C23: get_vertices() yields exactly the payloads of the vertex table, one
\* per stored vertex id (the payload get_vertex returns for it), get_edges()
\* exactly the records of the edge table, one per stored edge id; each yields
\* nothing when its table is empty, and neither call changes the graph.
C23_ViewsYieldTables ==
    [][/\ last'.op = "get_vertices" =>
             /\ this' = this
             /\ YieldsTable(last'.ret.range, vertex_index)
             /\ \A k \in DOMAIN vertex_index :
                   BagIn(get_vertex(this, k).ok, last'.ret.range)
       /\ last'.op = "get_edges" =>
             /\ this' = this
             /\ YieldsTable(last'.ret.range, edge_index)
             /\ \A k \in DOMAIN edge_index :
                   BagIn(get_edge(this, k).ok, last'.ret.range)]_vars

\* get_edges has just yielded the two records of a graph of two vertices.
C23_Witness ==
    /\ last.op = "get_edges"
    /\ BagCardinality(last.ret.range) = 2
    /\ BagToSet(last.ret.range) = {edge_index[k] : k \in DOMAIN edge_index}
    /\ BagCardinality(get_vertices(this).range) = 2

\* The five vertices and the four edges of the scenario are all stored.
ScenarioBuilt ==
    /\ DOMAIN vertex_index = {HashV(v) : v \in ScenarioVertex}
    /\ \A t \in ScenarioEdges : Bound(t[3], t[1], t[2])

\* C24: with vertices 1..5 and edges 2->1 (21), 3->1 (31), 4->2 (42), 5->2 (52)
\* stored, get_parents(1) = {2,3}, get_children(2) = {1}, get_neighbours(2) =
\* {1,4,5}, get_outgoing_edges(1) = {}, get_incoming_edges(2) = {42,52}, and
\* delete_edge(42) followed by delete_vertex(4) both succeed; and in every
\* state of the scenario where vertex 2 is stored with edge 21 or edge 52,
\* delete_vertex(2) fails with VERTEX_NOT_FREE.
C24_Scenario ==
    /\ ScenarioBuilt =>
          /\ get_parents(this, 1) = Success({2, 3})
          /\ get_children(this, 2) = Success({1})
          /\ get_neighbours(this, 2) = Success({1, 4, 5})
          /\ get_outgoing_edges(this, 1) = Success({})
          /\ get_incoming_edges(this, 2) = Success({42, 52})
          /\ LET first == delete_edge(this, 42)
                 second == delete_vertex(first.graph, 4)
             IN /\ first.ret = Success(42)
                /\ second.ret = Success(4)
                /\ ~Contains(second.graph.vertex_index, 4)
    /\ (Contains(vertex_index, 2) /\ (Contains(edge_index, 21) \/ Contains(edge_index, 52))) =>
          delete_vertex(this, 2) = Outcome(this, Error("VERTEX_NOT_FREE"))
    /\ (last.op = "delete_vertex" /\ last.args = <<2>>
          /\ (Contains(edge_index, 21) \/ Contains(edge_index, 52))) =>
          last.ret = Error("VERTEX_NOT_FREE")

\* After the scenario was built and edge 42 deleted, delete_vertex(4) has just
\* succeeded, edges 21, 31 and 52 and the four other vertices being stored.
C24_Witness ==
    /\ last.op = "delete_vertex"
    /\ last.args = <<4>>
    /\ last.ret = Success(4)
    /\ 4 \in freed
    /\ DOMAIN vertex_index = {1, 2, 3, 5}
    /\ DOMAIN edge_index = {21, 31, 52}

\* ---- The Result class ----

\* The Result an accessor was called on, as it was before the call.
Before == last.args[1]

\* C25: a Result built by success(x) answers is_ok() with true, get_ok() with x
\* and consume_ok() with x; a Result built by error(y) answers is_ok() with
\* false, get_error() with y and consume_error() with y.
C25_FactoriesAndAccessors ==
    \A x \in Payload :
        /\ last.op \in {"is_ok", "get_ok", "consume_ok"} /\ Before = Success(x) =>
               last.ret = Returned(IF last.op = "is_ok" THEN TRUE ELSE x)
        /\ last.op \in {"is_ok", "get_error", "consume_error"} /\ Before = Error(x) =>
               last.ret = Returned(IF last.op = "is_ok" THEN FALSE ELSE x)

\* A Movable was consumed out of an error Result built by error(y), and came
\* out as y.
C25_Witness ==
    /\ last.op = "consume_error"
    /\ "ERROR" \in movable
    /\ \E y \in Payload : Before = Error(y) /\ last.ret = Returned(y)

\* The four accessors that return a payload.
PayloadAccessors == {"get_ok", "consume_ok", "get_error", "consume_error"}

\* The accessor op is the wrong one for the Result r.
WrongVariant(op, r) ==
    \/ op \in {"get_ok", "consume_ok"} /\ ~r.is_success
    \/ op \in {"get_error", "consume_error"} /\ r.is_success

\* C26: get_ok() and consume_ok() on an error Result, and get_error() and
\* consume_error() on a success Result, yield no value: each ends in a raised
\* error, and the Result keeps its variant and its payload.
C26_WrongAccessorFaults ==
    last.op \in PayloadAccessors /\ WrongVariant(last.op, Before) =>
        /\ "thrown" \in DOMAIN last.ret
        /\ "returned" \notin DOMAIN last.ret
        /\ res = Before

\* consume_ok() was called on an error Result whose ERROR type is Movable.
C26_Witness ==
    /\ last.op = "consume_ok"
    /\ ~Before.is_success
    /\ "ERROR" \in movable
    /\ last.ret = RuntimeError

\* C27: after consume_ok() on a success Result, or consume_error() on an error
\* Result, the source keeps its variant: is_ok() answers as before, get_ok()
\* (get_error()) still returns without a fault, what it returns is the payload
\* moved from (no longer valid when the type is Movable), and the value consumed
\* is the payload as it was before the call.
C27_ConsumeKeepsVariant ==
    last.op \in {"consume_ok", "consume_error"} /\ ~WrongVariant(last.op, Before) =>
        LET alt == IF last.op = "consume_ok" THEN "ok" ELSE "err"
            type == IF last.op = "consume_ok" THEN "SUCCESS" ELSE "ERROR"
            again == IF last.op = "consume_ok" THEN get_ok(res) ELSE get_error(res)
        IN  /\ is_ok(res) = is_ok(Before)
            /\ "returned" \in DOMAIN again.ret
            /\ again.ret.returned.val = Before[alt].val
            /\ type \in movable => ~again.ret.returned.valid
            /\ type \notin movable => again.ret.returned = Before[alt]
            /\ last.ret = Returned(Before[alt])

\* A valid Movable was consumed out of a success Result, which now holds it
\* moved from.
C27_Witness ==
    /\ last.op = "consume_ok"
    /\ "SUCCESS" \in movable
    /\ Before.is_success /\ Before.ok.valid
    /\ res.is_success /\ ~res.ok.valid
    /\ last.ret = Returned(Before.ok)

\* The payload of a Result, read by the accessor of its variant.
PayloadOf(r) ==
    IF is_ok(r).returned THEN get_ok(r).ret.returned ELSE get_error(r).ret.returned

\* C28: two Results of one type are equal exactly when both are successes or
\* both are errors and their payloads are equal; a success and an error are
\* not equal, not even when their payloads are.
C28_Equality ==
    last.op = "operator==" =>
        LET a == last.args[1]
            b == last.args[2]
        IN  /\ last.ret.returned <=>
                   is_ok(a) = is_ok(b) /\ PayloadOf(a) = PayloadOf(b)
            /\ is_ok(a) # is_ok(b) => ~last.ret.returned

\* A success and an error that hold equal payloads were compared.
C28_Witness ==
    /\ last.op = "operator=="
    /\ is_ok(last.args[1]) # is_ok(last.args[2])
    /\ PayloadOf(last.args[1]) = PayloadOf(last.args[2])
    /\ ~last.ret.returned

\* ---- Threads ----

\* An edge record names a vertex that the vertex table does not hold.
EdgeNamesAbsentVertex ==
    \E k \in DOMAIN edge_index :
        \/ edge_index[k].from_id \notin DOMAIN vertex_index
        \/ edge_index[k].to_id \notin DOMAIN vertex_index

\* The adjacency index has an entry for a vertex that the vertex table does not
\* hold.
AdjacencyOfAbsentVertex ==
    \E id \in DOMAIN adjacency_list : id \notin DOMAIN vertex_index

\* C29: where every call runs under an exclusive lock, no state is reached in
\* which an edge record names an absent vertex or the adjacency index has an
\* entry for an absent vertex. (That such a state is reached without the lock
\* is what C29_Witness shows.)
C29_LockedCallsKeepIntegrity ==
    synchronized => ~EdgeNamesAbsentVertex /\ ~AdjacencyOfAbsentVertex

\* Without the lock: add_edge passed its vertex test, delete_vertex of an
\* endpoint ran to its end, then add_edge stored the edge and returned its id;
\* the edge names the deleted vertex, which is back in the adjacency index.
C29_Witness ==
    /\ ~synchronized
    /\ pc["adder"].at = "returned" /\ pc["deleter"].at = "returned"
    /\ pc["adder"].ret = Success(HashE(pc["adder"].args[3]))
    /\ pc["deleter"].ret = Success(pc["deleter"].args[1])
    /\ pc["deleter"].args[1] \in {pc["adder"].args[1], pc["adder"].args[2]}
    /\ EdgeNamesAbsentVertex
    /\ AdjacencyOfAbsentVertex

\* ---- An edge id after its edge was deleted ----

\* C30: after delete_edge(hash(e)) succeeded the id is free again: add_edge(c, d, e)
\* with the same payload and any two present vertices c and d, the original
\* endpoints or not, succeeds and binds the id to (c, d).
C30_DeletedIdIsFree ==
    \A old \in unbound :
        last.op = "add_edge" /\ last.args[3] = old.edge
        /\ last.args[1] \in DOMAIN vertex_index /\ last.args[2] \in DOMAIN vertex_index =>
            LET edge_id == HashE(old.edge) IN
            /\ last.ret = Success(edge_id)
            /\ Contains(edge_index, edge_id)
            /\ edge_index[edge_id] = Edge(last.args[1], last.args[2], old.edge)
            /\ edge_id \in adjacency_list[last.args[1]].outgoing_edges
            /\ edge_id \in adjacency_list[last.args[2]].incoming_edges

\* An edge was deleted and its payload was added again at once between two
\* vertices, neither of which is the endpoint it was before.
C30_Witness ==
    \E old \in unbound :
        /\ last.op = "add_edge" /\ last.args[3] = old.edge
        /\ last.args[1] # old.from_id /\ last.args[2] # old.to_id
        /\ last.ret = Success(HashE(old.edge))
        /\ edge_index[HashE(old.edge)] = Edge(last.args[1], last.args[2], old.edge)

\* ---- The three tables together ----

\* C31: in every state the adjacency index has an entry for exactly the ids of
\* the vertex table: add_vertex and delete_vertex add and remove both, and the
\* operator[] of add_edge and delete_edge makes no entry for an absent vertex.
C31_AdjacencyKeysAreVertexKeys == DOMAIN adjacency_list = DOMAIN vertex_index

\* delete_edge went through its two operator[] accesses while some vertex id was
\* absent, and the two key sets are the same non-empty set.
C31_Witness ==
    /\ last.op = "delete_edge" /\ ReturnedOk
    /\ DOMAIN vertex_index # {}
    /\ VertexIds \ DOMAIN vertex_index # {}
    /\ DOMAIN adjacency_list = DOMAIN vertex_index

\* C32: in every state no edge dangles: from_id and to_id of every record of the
\* edge table are ids of the vertex table.
C32_NoDanglingEdge ==
    \A k \in DOMAIN edge_index :
        /\ edge_index[k].from_id \in DOMAIN vertex_index
        /\ edge_index[k].to_id \in DOMAIN vertex_index

\* delete_vertex was asked to remove an endpoint of a stored edge and refused;
\* the edge still names two present vertices.
C32_Witness ==
    /\ last.op = "delete_vertex" /\ last.ret = Error("VERTEX_NOT_FREE")
    /\ \E k \in DOMAIN edge_index :
           /\ last.args[1] \in {edge_index[k].from_id, edge_index[k].to_id}
           /\ edge_index[k].from_id \in DOMAIN vertex_index
           /\ edge_index[k].to_id \in DOMAIN vertex_index

\* C33: in every state every edge id held in an incoming or an outgoing set is
\* a key of the edge table, so that the edge_index lookups of get_children,
\* get_parents and get_neighbours find every id they look up.
C33_NoStaleEdgeId ==
    /\ \A id \in DOMAIN adjacency_list :
           adjacency_list[id].incoming_edges \cup adjacency_list[id].outgoing_edges
               \subseteq DOMAIN edge_index
    /\ \A id \in VertexIds :
           /\ get_children(this, id) # Thrown
           /\ get_parents(this, id) # Thrown
           /\ get_neighbours(this, id) # Thrown

\* delete_edge removed the last edge of some vertex while another edge stays in
\* the outgoing set of a vertex.
C33_Witness ==
    /\ last.op = "delete_edge" /\ ReturnedOk
    /\ \E id \in freed : TRUE
    /\ \E id \in DOMAIN adjacency_list :
           /\ adjacency_list[id].outgoing_edges # {}
           /\ adjacency_list[id].outgoing_edges \subseteq DOMAIN edge_index

\* ---- The order of the tests of add_edge ----

\* C34: add_edge tests the presence of the endpoints before the id conflict:
\* with hash(e) bound, add_edge(c, d, e) with c or d not in the vertex table
\* returns ABSENT_VERTX, and whatever the arguments EDGE_ALREADY_EXISTS is
\* returned only when c and d are both present.
C34_PresenceBeforeConflict ==
    \A e \in EdgePayload \cup {CollidingEdge}, c \in VertexIds, d \in VertexIds :
        LET ret == add_edge(this, c, d, e).ret IN
        /\ Contains(edge_index, HashE(e))
           /\ (~Contains(vertex_index, c) \/ ~Contains(vertex_index, d)) =>
               ret = Error("ABSENT_VERTX")
        /\ ret = Error("EDGE_ALREADY_EXISTS") =>
               Contains(vertex_index, c) /\ Contains(vertex_index, d)

\* add_edge was called with the payload of a stored edge and exactly one
\* endpoint absent, and returned ABSENT_VERTX.
C34_Witness ==
    /\ last.op = "add_edge"
    /\ last.ret = Error("ABSENT_VERTX")
    /\ Contains(edge_index, HashE(last.args[3]))
    /\ Contains(vertex_index, last.args[1]) # Contains(vertex_index, last.args[2])

\* ---- Reads ----

\* The const members.
Reads == VertexQueries \cup {"get_edge", "get_vertices", "get_edges"}

C36_InsertDeleteRoundTrip ==
    /\ \A v \in Vertex :
           ~Contains(vertex_index, HashV(v)) =>
               LET added == add_vertex(this, v)
                   deleted == delete_vertex(added.graph, HashV(v))
               IN  /\ added.ret = Success(HashV(v)) /\ added.graph # this
                   /\ deleted.ret = Success(HashV(v))
                   /\ deleted.graph = this
    /\ \A a \in VertexIds, b \in VertexIds, e \in EdgePayload :
           ~Contains(edge_index, HashE(e)) =>
               LET added == add_edge(this, a, b, e)
                   deleted == delete_edge(added.graph, HashE(e))
               IN  /\ deleted.graph = this
                   /\ Contains(vertex_index, a) /\ Contains(vertex_index, b) =>
                          /\ added.ret = Success(HashE(e)) /\ added.graph # this
                          /\ deleted.ret = Success(HashE(e))

\* add_edge has just stored an edge whose id was absent, while another edge is
\* stored; delete_edge of its id would succeed and give an object
\* from which the same add_edge leads back here.
C36_Witness ==
    /\ last.op = "add_edge" /\ ReturnedOk /\ changed
    /\ Cardinality(DOMAIN edge_index) > 1
    /\ LET deleted == delete_edge(this, last.ret.ok)
       IN  /\ deleted.ret = Success(last.ret.ok)
           /\ deleted.graph # this
           /\ add_edge(deleted.graph, last.args[1], last.args[2], last.args[3]).graph = this

\* ---- The two headers side by side ----

\* C37, as claimed: on the same sequence of calls of the shared members the
\* DirectedGraph of src/headers/graph.hpp and that of
\* src/headers/cgrapht/graph.hpp return equal results at every step,
\* get_neighbours returning the children united with the parents in both.
C37_Original ==
    /\ legacy.ret = last.ret
    /\ last.op = "get_neighbours" /\ ReturnedOk =>
           /\ last.ret.ok = get_children(this, last.args[1]).ok
                               \cup get_parents(this, last.args[1]).ok
           /\ legacy.ret.ok = legacy_get_children(legacy.graph, last.args[1]).ok
                                 \cup legacy_get_parents(legacy.graph, last.args[1]).ok

\* What holds of the two instead: they hold the same tables after every call,
\* every member but get_neighbours returns the same in both, and the older
\* get_neighbours returns what get_parents returns.
C37_AgreeButNeighbours ==
    /\ legacy.graph = this
    /\ last.op # "get_neighbours" => legacy.ret = last.ret
    /\ last.op = "get_neighbours" => legacy.ret = get_parents(this, last.args[1])

\* C38, as claimed: for a Result built by success(x) or error(y), each of is_ok,
\* get_ok, get_error, consume_ok, consume_error and == gives the same outcome
\* in src/headers/models.hpp and in src/headers/cgrapht/models.hpp: the same
\* value, or a fault in both; consume_ok() on a success and consume_error() on
\* an error return the payload in both.
C38_Original ==
    last.op \in Accessors \cup {"operator=="} /\ Before \in Results =>
        /\ "returned" \in DOMAIN last.ret => legacy.ret = last.ret
        /\ "thrown" \in DOMAIN last.ret => "thrown" \in DOMAIN legacy.ret

\* What holds of the two instead: is_ok, get_ok, get_error and == give the same
\* outcome in both, and in the older header consume_ok and consume_error end
\* in a fault on every Result and leave it as it was.
C38_AgreeButConsume ==
    /\ last.op \in {"is_ok", "get_ok", "get_error", "operator=="} /\ Before \in Results =>
           legacy.ret = last.ret
    /\ last.op \in {"consume_ok", "consume_error"} =>
           /\ "thrown" \in DOMAIN legacy.ret
           /\ legacy.result \in {legacy_Success(x) : x \in Payload}
                                 \cup {legacy_Error(y) : y \in Payload}

\* The Results at hand: the one the calls are made on, and the one the last
\* call made, if it made one.
Obtained ==
    {res} \cup (IF last.op \in {"success", "error", "copy", "move"}
                THEN {last.ret.returned}
                ELSE {})

\* C39: every Result made by success or error is well-formed in every later
\* state, after copies, moves and consume calls: is_ok() is true exactly when
\* the variant holds the success payload, false exactly when it holds the
\* error payload, and the variant never holds monostate.
C39_WellFormed ==
    \A r \in Obtained :
        /\ DOMAIN r \cap {"ok", "err"} # {}
        /\ is_ok(r) = Returned(TRUE) <=> "ok" \in DOMAIN r /\ "err" \notin DOMAIN r
        /\ is_ok(r) = Returned(FALSE) <=> "err" \in DOMAIN r /\ "ok" \notin DOMAIN r

\* An error Result was consumed and then moved: both the source and the new
\* object hold the error payload, moved from.
C39_Witness ==
    /\ last.op = "move"
    /\ \A r \in Obtained : "err" \in DOMAIN r /\ ~r.err.valid

====
